---- MODULE Spec2Model ----
(***************************************************************************)
(* A model of the mini-koishi composition kernel: the event bus            *)
(* (core/events.ts), the middleware pipeline (middleware.ts), the command  *)
(* table (command.ts) and the context tree (core/context.ts).              *)
(*                                                                         *)
(* The module holds several specifications over one set of variables:      *)
(*   SpecCtx    the context tree: registration through nodes, extend,      *)
(*              plugin and (cascading) dispose;                            *)
(*   SpecInject the context tree with inject and provide;                  *)
(*   SpecFail   the context tree with listeners and plugin bodies that     *)
(*              throw;                                                     *)
(*   SpecLife   the Lifecycle trackers under collect and dispose;          *)
(*   SpecOrder  the context tree with "dispose" listeners that note what   *)
(*              they see: the order of the steps of dispose();             *)
(*   SpecExtend the context tree under extend and the dispose of parents;  *)
(*   SpecCollide the command table shared by the nodes of a tree, with one *)
(*              name registered by several nodes;                          *)
(*   SpecBus    the event bus: on/once/off and the emit, bail and parallel *)
(*              dispatches, one listener call at a time;                   *)
(*   SpecNest   the event bus with dispatches called from listeners;       *)
(*   SpecOnce   SpecNest with a record of the calls of once() listeners;   *)
(*   SpecOff    the event bus with two names, under on, once, off, emit;   *)
(*   SpecDisposer the disposers returned by on, once and middleware, called*)
(*              by their holder and by the dispose() of the node;          *)
(*   SpecReenter dispose() step by step, called again from a listener of   *)
(*              "dispose";                                                 *)
(*   SpecPipe   the middleware pipeline: add/remove and run, one stage     *)
(*              step at a time;                                            *)
(*   SpecCmd    the command table: register, remove and execute of a text; *)
(*   SpecMsg    handleMessage: the "message" event, the pipeline, the      *)
(*              command lookup of the final handler;                       *)
(*   SpecRuns   several handleMessage runs in progress while stages are    *)
(*              added and nodes disposed;                                  *)
(*   SpecLate   the context tree with an emit and a pipeline run in        *)
(*              progress while nodes are disposed;                         *)
(*   SpecKids   the child lists under extend, plugin and dispose;          *)
(*   SpecTree   contexts as objects holding references to the structures   *)
(*              they share.                                                *)
(***************************************************************************)
EXTENDS Integers, Sequences, FiniteSets, TLC

VARIABLES
    listeners,      \* EventEmitter._listeners: event name -> list of entries
    middlewares,    \* MiddlewareManager._middlewares: list of entries
    commands,       \* CommandManager._commands: command name -> command
    services,       \* ServiceManager: service name -> instance (Null: absent)
    parent,         \* Context.parent of every node (0 for the root)
    children,       \* Context._children of every node
    lifecycle,      \* Context.lifecycle of every node
    regSeq,         \* number of registrations made so far (names closures)
    dispEmits,      \* per node: how often its dispose() emitted "dispose"
    ranCount,       \* per node: how many disposables its Lifecycle invoked
    lastCall,       \* the last API call made (a dispose()? of a disposed node? disposing how many)
    stack,          \* the synchronous dispatches in progress (innermost first);
                    \* in SpecRuns the pipeline runs called, in call order;
                    \* in SpecReenter the dispose() calls in progress
    join,           \* the parallel() call that has started its listeners
    done,           \* the emit() or bail() that has just finished
    run,            \* the MiddlewareManager.run call in progress
    calls,          \* what was observed so far: the calls of the callbacks given
                    \* to inject() and the plugin failures plugin() reported,
                    \* what "probe" listeners saw, the once() listeners called
                    \* (SpecOnce), the teardowns run (SpecReenter)
    tree            \* contexts as objects: the references every node holds

vars == <<listeners, middlewares, commands, services, parent, children, lifecycle, regSeq, dispEmits, ranCount, lastCall, stack, join, done, run, calls, tree>>


----------------------------------------------------------------------------
(* Bounds of the model. *)

\* size of a context tree scenario (SpecCtx): the nodes created, the root
\* included, plus the registrations made through them
MaxSize == 5
\* of which nodes
MaxNodes == MaxSize - 2
\* registrations made on the bus (SpecBus) or the pipeline (SpecPipe)
MaxListeners == 3
\* dispose() calls that reach the "dispose" event, per node
MaxEmits == 2
\* dispatches in progress, one called from a listener of the other (SpecNest)
MaxDepth == 2

----------------------------------------------------------------------------
(* Values. *)

\* the language's null / undefined
Null == 0

EmptyMap == [k \in {} |-> <<>>]

\* A function value.  cb names the callback written by the user; w is 0 for
\* the callback itself and the registration number for the closure that
\* once() wraps around it, so two once() calls give two different functions.
Fn(cb, w) == [cb |-> cb, w |-> w]
NoFn == Fn("", 0)

\* An entry of a listener list or of the stage list: the function, and the
\* history of the slot (who registered it, as which registration, prepended).
Entry(fn, by, reg, pre) == [fn |-> fn, by |-> by, reg |-> reg, pre |-> pre]

\* A disposable collected by a Lifecycle.
Disposable(kind, ev, fn, name, node) == [kind |-> kind, ev |-> ev, fn |-> fn, name |-> name, node |-> node]

----------------------------------------------------------------------------
(* Arrays. *)

\* Array.prototype.indexOf on the functions of a list: 0 when not found
IndexOf(s, fn) ==
    IF \E i \in 1..Len(s) : s[i].fn = fn
    THEN CHOOSE i \in 1..Len(s) : s[i].fn = fn /\ \A j \in 1..(i - 1) : s[j].fn # fn
    ELSE 0

\* Array.prototype.splice(index, 1)
Splice(s, i) == SubSeq(s, 1, i - 1) \o SubSeq(s, i + 1, Len(s))

RECURSIVE Reverse(_)
Reverse(s) == IF s = <<>> THEN <<>> ELSE Append(Reverse(Tail(s)), Head(s))

Count(s, fn) == Cardinality({i \in 1..Len(s) : s[i].fn = fn})

IsPrefix(a, b) == Len(a) <= Len(b) /\ a = SubSeq(b, 1, Len(a))

----------------------------------------------------------------------------
(* EventEmitter (core/events.ts), as operations on the _listeners map L. *)

\* this._listeners.get(event), [] standing for undefined
ListenersOf(L, event) == IF event \in DOMAIN L THEN L[event] ELSE <<>>

MapSet(L, key, value) == [k \in DOMAIN L \cup {key} |-> IF k = key THEN value ELSE L[k]]

MapDelete(L, key) == [k \in DOMAIN L \ {key} |-> L[k]]

\* on(event, listener, prepend): unshift or push onto the event's array
EmitterOnAlwaysPush(L, event, entry, prepend) ==
    MapSet(L, event, Append(ListenersOf(L, event), entry))

EmitterOn(L, event, entry, prepend) ==
    MapSet(L, event, IF prepend THEN <<entry>> \o ListenersOf(L, event) ELSE Append(ListenersOf(L, event), entry))

\* off(event, listener): splice the first index of listener, then delete the
\* map entry when the array is empty
EmitterOffKeepEmpty(L, event, fn) ==
    IF event \notin DOMAIN L THEN L
    ELSE LET index == IndexOf(L[event], fn)
         IN IF index # 0 THEN MapSet(L, event, Splice(L[event], index)) ELSE L

EmitterOff(L, event, fn) ==
    IF event \notin DOMAIN L THEN L
    ELSE LET index == IndexOf(L[event], fn)
             rest == IF index # 0 THEN Splice(L[event], index) ELSE L[event]
         IN IF Len(rest) = 0 THEN MapDelete(L, event) ELSE MapSet(L, event, rest)

----------------------------------------------------------------------------
(* MiddlewareManager.add / remove (middleware.ts), on the stage list M. *)

MiddlewareAdd(M, entry, prepend) == IF prepend THEN <<entry>> \o M ELSE Append(M, entry)

MiddlewareRemove(M, fn) ==
    LET index == IndexOf(M, fn)
    IN IF index # 0 THEN Splice(M, index) ELSE M

----------------------------------------------------------------------------
(* Command and CommandManager (command.ts), on the command map C.  A text *)
(* is the sequence of its pieces: a word (a maximal run of characters that *)
(* are not whitespace) or " " (one whitespace character).                   *)

\* CommandManager.register with new Command(name, description): no action yet
CommandRegisterKeepFirst(C, name, by) ==
    IF name \in DOMAIN C THEN C ELSE MapSet(C, name, [name |-> name, by |-> by, act |-> FALSE])

CommandRegister(C, name, by) == MapSet(C, name, [name |-> name, by |-> by, act |-> FALSE])

\* Command.action
CommandAction(C, name) == [C EXCEPT ![name].act = TRUE]

CommandRemove(C, name) == MapDelete(C, name)

RECURSIVE DropSpaces(_)
DropSpaces(s) == IF s # <<>> /\ Head(s) = " " THEN DropSpaces(Tail(s)) ELSE s

\* String.prototype.trim
Trim(s) == Reverse(DropSpaces(Reverse(DropSpaces(s))))

\* String.prototype.split(/\s+/): the empty text gives one empty token, a
\* separator at either end an empty token there
RECURSIVE Split(_)
Split(s) ==
    IF s = <<>> THEN <<"">>
    ELSE IF Head(s) = " " THEN <<"">> \o Split(DropSpaces(s))
    ELSE IF Tail(s) = <<>> THEN <<Head(s)>>
    ELSE <<Head(s)>> \o Split(DropSpaces(Tail(s)))

\* new Command(def, description): this.name = def.split(/\s+/)[0]
CommandName(def) == Split(def)[1]

\* the words of the model that start with "--", and those of the form "-c"
LongOptions == {"--v"}
ShortOptions == {"-x"}
StartsWithDash(t) == t \in LongOptions \cup ShortOptions
\* token.slice(2) and token[1]
OptionName(t) == CASE t = "--v" -> "v" [] t = "-x" -> "x"
\* the option value true
True == "(true)"

\* Command._parseArgs, from token i on
RECURSIVE ParseFrom(_, _, _)
ParseFrom(tokens, i, acc) ==
    IF i > Len(tokens) THEN acc
    ELSE LET token == tokens[i]
         IN IF token \in LongOptions
            THEN IF i + 1 <= Len(tokens) /\ tokens[i + 1] # "" /\ ~StartsWithDash(tokens[i + 1])
                 THEN ParseFrom(tokens, i + 2, [acc EXCEPT !.options = MapSet(@, OptionName(token), tokens[i + 1])])
                 ELSE ParseFrom(tokens, i + 1, [acc EXCEPT !.options = MapSet(@, OptionName(token), True)])
            ELSE IF token \in ShortOptions
            THEN ParseFrom(tokens, i + 1, [acc EXCEPT !.options = MapSet(@, OptionName(token), True)])
            ELSE ParseFrom(tokens, i + 1, [acc EXCEPT !.args = Append(@, token)])

ParseArgs(tokens) == ParseFrom(tokens, 1, [args |-> <<>>, options |-> EmptyMap])

NoMatch == [matched |-> FALSE, name |-> "", ran |-> FALSE, args |-> <<>>, options |-> EmptyMap]

\* CommandManager.execute with Command.execute: the result, the command
\* looked up, whether its action ran and what it was called with
CommandExecuteNoTrim(C, content) ==
    LET tokens == Split(content)
        name == tokens[1]
    IN IF name = "" THEN NoMatch
       ELSE IF name \notin DOMAIN C THEN NoMatch
       ELSE IF ~C[name].act THEN [NoMatch EXCEPT !.matched = TRUE, !.name = name]
       ELSE LET parsed == ParseArgs(Tail(tokens))
            IN [matched |-> TRUE, name |-> name, ran |-> TRUE, args |-> parsed.args, options |-> parsed.options]

CommandExecute(C, content) ==
    LET tokens == Split(Trim(content))
        name == tokens[1]
    IN IF name = "" THEN NoMatch
       ELSE IF name \notin DOMAIN C THEN NoMatch
       ELSE IF ~C[name].act THEN [NoMatch EXCEPT !.matched = TRUE, !.name = name]
       ELSE LET parsed == ParseArgs(Tail(tokens))
            IN [matched |-> TRUE, name |-> name, ran |-> TRUE, args |-> parsed.args, options |-> parsed.options]

----------------------------------------------------------------------------
(* The context tree (core/context.ts).  The synchronous operations of a     *)
(* Context are functions of a world record w that holds the shared          *)
(* structures and the per-node fields; an action applies one of them.       *)

World == [ls |-> listeners, mw |-> middlewares, cmds |-> commands, svcs |-> services, par |-> parent, kids |-> children, life |-> lifecycle, ord |-> "", seq |-> regSeq, emits |-> dispEmits, ran |-> ranCount, calls |-> calls, err |-> FALSE]

Root == 1

NewLifecycle == [isDisposed |-> FALSE, disposables |-> <<>>]

NodeIndexOf(s, n) ==
    IF \E i \in 1..Len(s) : s[i] = n
    THEN CHOOSE i \in 1..Len(s) : s[i] = n /\ \A j \in 1..(i - 1) : s[j] # n
    ELSE 0

\* ServiceManager.has
ServiceHas(w, name) == name \in DOMAIN w.svcs /\ w.svcs[name].val # Null

\* What the callback "probe" notes when it is called: the event, the node
\* it was registered through, and the tree and the bus as they are then
Observation(w, event, entry) ==
    [at |-> event, by |-> entry.by, disposed |-> {n \in 1..Len(w.life) : w.life[n].isDisposed},
     kids |-> w.kids, ran |-> w.ran, ls |-> w.ls]

\* Calling a listener of the bus from a synchronous emit.  The closure that
\* inject() registers checks its dependencies and calls the callback with
\* the node.  The closure made by once() first calls its own disposer (off
\* of itself) and then the callback.  The callback "boom" throws; every
\* other callback returns and changes nothing to the world ("probe" notes
\* what it sees).
InvokeListenerNoCheck(w, event, entry) ==
    IF entry.fn.cb = "inject"
    THEN [w EXCEPT !.calls = Append(@, [id |-> entry.fn.w, node |-> entry.fn.ctx, at |-> event])]
    ELSE IF entry.fn.cb = "probe"
    THEN [w EXCEPT !.calls = Append(@, Observation(w, event, entry))]
    ELSE LET w1 == IF entry.fn.w # 0 THEN [w EXCEPT !.ls = EmitterOff(@, event, entry.fn)] ELSE w
         IN IF entry.fn.cb = "boom" THEN [w1 EXCEPT !.err = TRUE] ELSE w1

InvokeListener(w, event, entry) ==
    IF entry.fn.cb = "inject"
    THEN IF \A dep \in entry.fn.deps : ServiceHas(w, dep)
         THEN [w EXCEPT !.calls = Append(@, [id |-> entry.fn.w, node |-> entry.fn.ctx, at |-> event])]
         ELSE w
    ELSE IF entry.fn.cb = "probe"
    THEN [w EXCEPT !.calls = Append(@, Observation(w, event, entry))]
    ELSE LET w1 == IF entry.fn.w # 0 THEN [w EXCEPT !.ls = EmitterOff(@, event, entry.fn)] ELSE w
         IN IF entry.fn.cb = "boom" THEN [w1 EXCEPT !.err = TRUE] ELSE w1

\* the loop of emit: a listener that throws ends it, nothing catches
RECURSIVE EmitFrom(_, _, _, _)
EmitFrom(w, event, snapshot, i) ==
    IF i > Len(snapshot) \/ w.err THEN w
    ELSE EmitFrom(InvokeListener(w, event, snapshot[i]), event, snapshot, i + 1)

\* EventEmitter.emit: every listener of a copy of the event's array, in order
Emit(w, event) == EmitFrom(w, event, ListenersOf(w.ls, event), 1)

\* ServiceManager.set: store, then raise the readiness signal on the bus
ServiceSet(w, name, value, by) ==
    Emit([w EXCEPT !.svcs = MapSet(@, name, [val |-> value, by |-> by])], "service")

\* Lifecycle.collect
Collect(w, n, d) == [w EXCEPT !.life[n].disposables = Append(@, d)]

\* Context.on
CtxOnNoCollect(w, n, event, cb, prepend) ==
    [w EXCEPT !.ls = EmitterOn(@, event, Entry(Fn(cb, 0), n, 0, prepend), prepend), !.seq = @ + 1]

CtxOn(w, n, event, cb, prepend) ==
    LET w1 == [w EXCEPT !.ls = EmitterOn(@, event, Entry(Fn(cb, 0), n, 0, prepend), prepend), !.seq = @ + 1]
    IN Collect(w1, n, Disposable("off", event, Fn(cb, 0), "", 0))

\* Context.once, with EventEmitter.once: the wrapped listener is registered
CtxOnce(w, n, event, cb) ==
    LET wrapped == Fn(cb, w.seq + 1)
        w1 == [w EXCEPT !.ls = EmitterOn(@, event, Entry(wrapped, n, w.seq + 1, FALSE), FALSE), !.seq = @ + 1]
    IN Collect(w1, n, Disposable("off", event, wrapped, "", 0))

\* Context.middleware
CtxMiddlewareNoCollect(w, n, cb, prepend) ==
    [w EXCEPT !.mw = MiddlewareAdd(@, Entry(Fn(cb, 0), n, 0, prepend), prepend), !.seq = @ + 1]

CtxMiddleware(w, n, cb, prepend) ==
    LET w1 == [w EXCEPT !.mw = MiddlewareAdd(@, Entry(Fn(cb, 0), n, 0, prepend), prepend), !.seq = @ + 1]
    IN Collect(w1, n, Disposable("remove", "", Fn(cb, 0), "", 0))

\* Context.command
CtxCommand(w, n, name) ==
    Collect([w EXCEPT !.cmds = CommandRegister(@, name, n), !.seq = @ + 1], n, Disposable("cmd", "", NoFn, name, 0))

\* Context.provide: when set() throws (a "service" listener threw) the
\* disposer is not collected
CtxProvide(w, n, name, value) ==
    LET w1 == ServiceSet([w EXCEPT !.seq = @ + 1], name, value, n)
    IN IF w1.err THEN w1 ELSE Collect(w1, n, Disposable("svc", "", NoFn, name, 0))

\* Context.inject: callback(this) now when every dependency is there, and
\* in any case a "service" listener that checks again.  The listener is a
\* closure over deps and this; the callback returns and changes nothing.
CtxInjectNoListen(w, n, deps) ==
    LET checker == [cb |-> "inject", w |-> w.seq + 1, deps |-> deps, ctx |-> n]
        w1 == IF \A dep \in deps : ServiceHas(w, dep)
              THEN [w EXCEPT !.calls = Append(@, [id |-> w.seq + 1, node |-> n, at |-> "inject"])]
              ELSE w
    IN Collect([w1 EXCEPT !.seq = @ + 1], n, Disposable("off", "service", checker, "", 0))

CtxInject(w, n, deps) ==
    LET checker == [cb |-> "inject", w |-> w.seq + 1, deps |-> deps, ctx |-> n]
        w1 == IF \A dep \in deps : ServiceHas(w, dep)
              THEN [w EXCEPT !.calls = Append(@, [id |-> w.seq + 1, node |-> n, at |-> "inject"])]
              ELSE w
        w2 == [w1 EXCEPT !.ls = EmitterOn(@, "service", Entry(checker, n, w.seq + 1, FALSE), FALSE), !.seq = @ + 1]
    IN Collect(w2, n, Disposable("off", "service", checker, "", 0))

\* Context.extend, with the constructor of the child
CtxExtend(w, p) ==
    LET c == Len(w.par) + 1
    IN [w EXCEPT !.par = Append(@, p),
                 !.kids = Append([@ EXCEPT ![p] = Append(@, c)], <<>>),
                 !.life = Append(@, NewLifecycle),
                 !.emits = Append(@, 0),
                 !.ran = Append(@, 0)]

\* Context.plugin.  The body of the plugin is the caller's code: what it
\* registers on the child are the registration steps made on the child.
CtxPluginNoCollect(w, p) == CtxExtend(w, p)

CtxPlugin(w, p) ==
    LET w1 == CtxExtend(w, p)
    IN Collect(w1, p, Disposable("child", "", NoFn, "", Len(w1.par)))

\* what the body of a plugin does on its context before it returns or
\* throws: registrations
BodyOp(op, ev, cb, name) == [op |-> op, ev |-> ev, cb |-> cb, name |-> name]

RECURSIVE ApplyBody(_, _, _)
ApplyBody(w, c, body) ==
    IF body = <<>> THEN w
    ELSE LET o == Head(body)
             w1 == IF o.op = "on" THEN CtxOn(w, c, o.ev, o.cb, FALSE) ELSE CtxCommand(w, c, o.name)
         IN ApplyBody(w1, c, Tail(body))

\* Context.plugin with the body of the plugin: extend, apply(childCtx) in
\* try/catch (the catch reports the failure on the console), collect the
\* disposal of the child, return the child
CtxPluginApply(w, p, body, throws) ==
    LET w1 == CtxExtend(w, p)
        c == Len(w1.par)
        w2 == [ApplyBody(w1, c, body) EXCEPT !.err = throws]
        w3 == IF w2.err
              THEN [w2 EXCEPT !.err = FALSE, !.calls = Append(@, [id |-> c, node |-> p, at |-> "plugin failed"])]
              ELSE w2
    IN Collect(w3, p, Disposable("child", "", NoFn, "", c))

RECURSIVE CtxDispose(_, _), LifecycleDispose(_, _), RunDisposables(_, _, _), RunDisposable(_, _)

\* One collected disposable, by the closure that was collected
RunDisposableNoCascade(w, d) ==
    CASE d.kind = "off" -> [w EXCEPT !.ls = EmitterOff(@, d.ev, d.fn)]
      [] d.kind = "remove" -> [w EXCEPT !.mw = MiddlewareRemove(@, d.fn)]
      [] d.kind = "cmd" -> [w EXCEPT !.cmds = CommandRemove(@, d.name)]
      [] d.kind = "svc" -> ServiceSet(w, d.name, Null, 0)
      [] d.kind = "child" -> w

RunDisposable(w, d) ==
    CASE d.kind = "off" -> [w EXCEPT !.ls = EmitterOff(@, d.ev, d.fn)]
      [] d.kind = "remove" -> [w EXCEPT !.mw = MiddlewareRemove(@, d.fn)]
      [] d.kind = "cmd" -> [w EXCEPT !.cmds = CommandRemove(@, d.name)]
      [] d.kind = "svc" -> ServiceSet(w, d.name, Null, 0)
      [] d.kind = "child" -> CtxDispose(w, d.node)

\* the loop of Lifecycle.dispose: a disposable that fails does not keep the
\* remaining ones from running, and nothing is thrown past dispose()
RunDisposables(w, n, ds) ==
    IF ds = <<>> THEN w
    ELSE LET w1 == RunDisposable([w EXCEPT !.ran[n] = @ + 1], Head(ds))
         IN RunDisposables([w1 EXCEPT !.err = FALSE], n, Tail(ds))

\* Lifecycle.dispose: nothing when disposed; else set the flag and invoke
\* every collected disposable.  The list of a disposed Lifecycle is never
\* read again, and the model drops it.
LifecycleDisposeUnguarded(w, n) ==
    LET ds == w.life[n].disposables
    IN RunDisposables([w EXCEPT !.life[n] = [isDisposed |-> TRUE, disposables |-> <<>>]], n, IF w.ord = "reverse" THEN Reverse(ds) ELSE ds)

LifecycleDispose(w, n) ==
    IF w.life[n].isDisposed THEN w
    ELSE LET ds == w.life[n].disposables
         IN RunDisposables([w EXCEPT !.life[n] = [isDisposed |-> TRUE, disposables |-> <<>>]], n, IF w.ord = "reverse" THEN Reverse(ds) ELSE ds)

\* the last step of Context.dispose: splice this out of parent._children
LeaveParentNoSplice(w, n) == w

LeaveParent(w, n) ==
    LET p == w.par[n]
        index == IF p = 0 THEN 0 ELSE NodeIndexOf(w.kids[p], n)
    IN IF index # 0 THEN [w EXCEPT !.kids[p] = Splice(@, index)] ELSE w

\* Context.dispose: the guard, this.emit("dispose"), this.lifecycle.dispose(),
\* the splice; a "dispose" listener that throws ends the call there
CtxDisposeUnguarded(w, n) ==
    LET w1 == Emit([w EXCEPT !.emits[n] = @ + 1], "dispose")
    IN IF w1.err THEN w1 ELSE LeaveParent(LifecycleDispose(w1, n), n)

CtxDisposeTeardownFirst(w, n) ==
    IF w.life[n].isDisposed THEN w
    ELSE LET w1 == LifecycleDispose(w, n)
         IN LeaveParent(Emit([w1 EXCEPT !.emits[n] = @ + 1], "dispose"), n)

CtxDispose(w, n) ==
    IF w.life[n].isDisposed THEN w
    ELSE LET w1 == Emit([w EXCEPT !.emits[n] = @ + 1], "dispose")
         IN IF w1.err THEN w1 ELSE LeaveParent(LifecycleDispose(w1, n), n)

----------------------------------------------------------------------------
(* SpecCtx: one context tree under the calls of its plugins and its host. *)

CtxEvents == {"e"}
Callbacks == {"f"}
StageFns == {"A"}
CommandNames == {"echo"}
ServiceNames == {"db"}

\* Lifecycle.dispose runs the disposables in registration order or in the
\* reverse of it
Orders == {"forward", "reverse"}

Nodes == 1..Len(parent)
IsDisposed(n) == lifecycle[n].isDisposed

NoDispatch == [kind |-> "none"]
NoCall == [op |-> "other", was |-> FALSE, newly |-> 0]

DisposedNodes(life) == {n \in 1..Len(life) : life[n].isDisposed}

Apply(w) ==
    /\ listeners' = w.ls
    /\ middlewares' = w.mw
    /\ commands' = w.cmds
    /\ services' = w.svcs
    /\ parent' = w.par
    /\ children' = w.kids
    /\ lifecycle' = w.life
    /\ regSeq' = w.seq
    /\ dispEmits' = w.emits
    /\ ranCount' = w.ran
    /\ calls' = w.calls
    /\ UNCHANGED <<stack, join, done, run, tree>>

\* new App(): the root context, with the built-in help command registered
InitCtx ==
    /\ listeners = EmptyMap
    /\ middlewares = <<>>
    /\ commands = CommandAction(CommandRegister(EmptyMap, "help", Root), "help")
    /\ services = EmptyMap
    /\ parent = <<0>>
    /\ children = <<<<>>>>
    /\ lifecycle = <<[isDisposed |-> FALSE, disposables |-> <<Disposable("cmd", "", NoFn, "help", 0)>>]>>
    /\ regSeq = 0
    /\ dispEmits = <<0>>
    /\ ranCount = <<0>>
    /\ lastCall = NoCall
    /\ stack = <<>>
    /\ join = NoDispatch
    /\ done = NoDispatch
    /\ run = NoDispatch
    /\ calls = <<>>
    /\ tree = NoDispatch

CanGrow == Len(parent) + regSeq < MaxSize

CanRegister(n) == ~IsDisposed(n) /\ CanGrow

On(n, event, cb, prepend) ==
    /\ CanRegister(n)
    /\ Apply(CtxOn(World, n, event, cb, prepend))
    /\ lastCall' = NoCall

Once(n, event, cb) ==
    /\ CanRegister(n)
    /\ Apply(CtxOnce(World, n, event, cb))
    /\ lastCall' = NoCall

Middleware(n, cb, prepend) ==
    /\ CanRegister(n)
    /\ Apply(CtxMiddleware(World, n, cb, prepend))
    /\ lastCall' = NoCall

Command(n, name) ==
    /\ CanRegister(n)
    /\ Apply(CtxCommand(World, n, name))
    /\ lastCall' = NoCall

Provide(n, name) ==
    /\ CanRegister(n)
    /\ Apply(CtxProvide(World, n, name, 1))
    /\ lastCall' = NoCall

Extend(p) ==
    /\ ~IsDisposed(p)
    /\ CanGrow
    /\ Len(parent) < MaxNodes
    /\ Apply(CtxExtend(World, p))
    /\ lastCall' = NoCall

Plugin(p) ==
    /\ ~IsDisposed(p)
    /\ CanGrow
    /\ Len(parent) < MaxNodes
    /\ Apply(CtxPlugin(World, p))
    /\ lastCall' = NoCall

EmitEvent(event) ==
    /\ Apply(Emit(World, event))
    /\ lastCall' = NoCall

\* a dispose() that throws leaves the node as it was and can be called
\* again: at most MaxEmits times
Dispose(n, ord) ==
    LET w == CtxDispose([World EXCEPT !.ord = ord], n)
    IN /\ dispEmits[n] < MaxEmits
       /\ Apply(w)
       /\ lastCall' = [op |-> "dispose", was |-> IsDisposed(n), newly |-> Cardinality(DisposedNodes(lifecycle') \ DisposedNodes(lifecycle)), threw |-> w.err]

NextCtx ==
    \/ \E n \in Nodes, event \in CtxEvents, cb \in Callbacks : On(n, event, cb, FALSE)
    \/ \E n \in Nodes, event \in CtxEvents, cb \in Callbacks : Once(n, event, cb)
    \/ \E n \in Nodes, cb \in StageFns : Middleware(n, cb, FALSE)
    \/ \E n \in Nodes, name \in CommandNames : Command(n, name)
    \/ \E n \in Nodes, name \in ServiceNames : Provide(n, name)
    \/ \E p \in Nodes : Extend(p)
    \/ \E p \in Nodes : Plugin(p)
    \/ \E event \in CtxEvents : EmitEvent(event)
    \/ \E n \in Nodes, ord \in Orders : Dispose(n, ord)

SpecCtx == InitCtx /\ [][NextCtx]_vars

----------------------------------------------------------------------------
(* Claims about the context tree (SpecCtx). *)

\* n is disposed by this step: its dispose() ran and returned
DisposedNow(n) == ~lifecycle[n].isDisposed /\ lifecycle'[n].isDisposed

\* the disposables of a kind that the live nodes hold for a function
LiveRegs(life, kind, event, fn) ==
    Cardinality({p \in (1..Len(life)) \X (1..MaxSize) :
        /\ ~life[p[1]].isDisposed
        /\ p[2] <= Len(life[p[1]].disposables)
        /\ life[p[1]].disposables[p[2]].kind = kind
        /\ life[p[1]].disposables[p[2]].ev = event
        /\ life[p[1]].disposables[p[2]].fn = fn})

\* what node n registered, before the step: by the slots it filled and by
\* the disposables it collected
OwnListeners(n) ==
    UNION {{<<ev, listeners[ev][i].fn>> : i \in {j \in 1..Len(listeners[ev]) : listeners[ev][j].by = n}} : ev \in DOMAIN listeners}
        \cup {<<lifecycle[n].disposables[i].ev, lifecycle[n].disposables[i].fn>> : i \in {j \in 1..Len(lifecycle[n].disposables) : lifecycle[n].disposables[j].kind = "off"}}

OwnStages(n) ==
    {middlewares[i].fn : i \in {j \in 1..Len(middlewares) : middlewares[j].by = n}}
        \cup {lifecycle[n].disposables[i].fn : i \in {j \in 1..Len(lifecycle[n].disposables) : lifecycle[n].disposables[j].kind = "remove"}}

OwnCommands(n) ==
    {name \in DOMAIN commands : commands[name].by = n}
        \cup {lifecycle[n].disposables[i].name : i \in {j \in 1..Len(lifecycle[n].disposables) : lifecycle[n].disposables[j].kind = "cmd"}}

OwnServices(n) ==
    {name \in DOMAIN services : services[name].by = n /\ services[name].val # Null}
        \cup {lifecycle[n].disposables[i].name : i \in {j \in 1..Len(lifecycle[n].disposables) : lifecycle[n].disposables[j].kind = "svc"}}

\* after the step nothing that n registered is left in the shared
\* structures: the bus and the pipeline hold no more copies of its functions
\* than the nodes still live account for, its command names are not in the
\* table and its services read as absent
OwnEffectsGone(n) ==
    /\ \A p \in OwnListeners(n) : Count(ListenersOf(listeners', p[1]), p[2]) <= LiveRegs(lifecycle', "off", p[1], p[2])
    /\ \A fn \in OwnStages(n) : Count(middlewares', fn) <= LiveRegs(lifecycle', "remove", "", fn)
    /\ \A name \in OwnCommands(n) : name \notin DOMAIN commands'
    /\ \A name \in OwnServices(n) : services'[name].val = Null

\* C1: when dispose() of a node has returned, every listener, stage,
\* command and service entry registered through that node is gone from the
\* shared structures.
C1_OwnEffectsRemoved == [][\A n \in Nodes : DisposedNow(n) => OwnEffectsGone(n)]_vars

\* a node without plugin children has been disposed, and its Lifecycle ran
\* two disposables: two registrations of its own
C1_Witness ==
    \E n \in Nodes :
        /\ IsDisposed(n) /\ dispEmits[n] = 1 /\ ranCount[n] >= 2
        /\ \A m \in Nodes : parent[m] # n
        /\ lastCall.op = "dispose" /\ ~lastCall.was /\ lastCall.newly = 1

\* the slots of a list that node s filled, in list order
SlotsBy(list, s) == LET Mine(e) == e.by = s IN SelectSeq(list, Mine)

FnsOf(list) == [i \in 1..Len(list) |-> list[i].fn]

RECURSIVE IsSubseq(_, _)
IsSubseq(a, b) ==
    IF Len(a) = 0 THEN TRUE
    ELSE IF Len(b) = 0 THEN FALSE
    ELSE IF Head(a) = Head(b) THEN IsSubseq(Tail(a), Tail(b))
    ELSE IsSubseq(a, Tail(b))

\* everything node s registered is in the shared structures after the step
\* as it was before it: its listeners and stages are in the lists in the
\* order they had, its commands and its services are the entries of
\* their names
EffectsKept(s) ==
    /\ \A ev \in DOMAIN listeners : IsSubseq(FnsOf(SlotsBy(listeners[ev], s)), FnsOf(ListenersOf(listeners', ev)))
    /\ IsSubseq(FnsOf(SlotsBy(middlewares, s)), FnsOf(middlewares'))
    /\ \A name \in DOMAIN commands : commands[name].by = s => name \in DOMAIN commands' /\ commands'[name] = commands[name]
    /\ \A name \in DOMAIN services : services[name].by = s => services'[name] = services[name]

Siblings(n) == {s \in Nodes : s # n /\ parent[s] = parent[n]}

\* the nodes created through plugin() below n, at any depth, by the
\* disposables their parents collected
RECURSIVE PluginDescendants(_, _)
PluginDescendants(n, depth) ==
    LET kids == {lifecycle[n].disposables[i].node : i \in {j \in 1..Len(lifecycle[n].disposables) : lifecycle[n].disposables[j].kind = "child"}}
    IN IF depth = 0 THEN {} ELSE kids \cup UNION {PluginDescendants(k, depth - 1) : k \in kids}

\* the step is the dispose() call made on n: n is disposed by it, and by no
\* cascade from another node disposed in the step
CalledNow(n) ==
    DisposedNow(n) /\ \A m \in Nodes : DisposedNow(m) => n \notin PluginDescendants(m, Len(parent))

\* C2: disposing a node removes nothing registered by a sibling that is
\* still live: each listener, stage, command and service entry of the
\* sibling is present after the dispose, in the same order.
C2_SiblingsUntouched ==
    [][\A n \in Nodes : CalledNow(n) => \A s \in Siblings(n) : ~lifecycle'[s].isDisposed => EffectsKept(s)]_vars

\* C3: when dispose() of a node returns, every descendant created through
\* plugin(), at any depth, is disposed, has emitted its "dispose"
\* notification exactly once, and has nothing left in the shared structures.
C3_CascadeToDescendants ==
    [][\A n \in Nodes : DisposedNow(n) => \A d \in PluginDescendants(n, Len(parent)) : lifecycle'[d].isDisposed /\ dispEmits'[d] = 1 /\ OwnEffectsGone(d)]_vars

\* one dispose() call disposed a node, its plugin child and the plugin child
\* of that child, which had made a registration
C3_Witness ==
    /\ lastCall.op = "dispose" /\ ~lastCall.was /\ lastCall.newly = 3
    /\ \E n, c, g \in Nodes : parent[c] = n /\ parent[g] = c /\ IsDisposed(n) /\ IsDisposed(c) /\ IsDisposed(g) /\ ranCount[g] >= 1 /\ ranCount[c] >= 1

\* C4: a dispose() call on a node that is already disposed emits no
\* "dispose" notification, invokes no disposable and leaves the bus, the
\* pipeline, the command table, the services and the child lists unchanged.
C4_DisposeIdempotent ==
    [][(lastCall'.op = "dispose" /\ lastCall'.was) => UNCHANGED <<listeners, middlewares, commands, services, parent, children, lifecycle, dispEmits, ranCount>>]_vars

\* dispose() was called on a node that was disposed, with registrations
\* of other nodes in the bus
C4_Witness ==
    /\ lastCall.op = "dispose" /\ lastCall.was
    /\ \E n \in Nodes : IsDisposed(n) /\ dispEmits[n] = 1 /\ ranCount[n] >= 1
    /\ DOMAIN listeners # {}

----------------------------------------------------------------------------
(* SpecInject: the context tree with two services, under inject, provide,  *)
(* extend and dispose.                                                      *)

InjectServices == {"db", "cache"}

Inject(n, deps) ==
    /\ CanRegister(n)
    /\ Apply(CtxInject(World, n, deps))
    /\ lastCall' = [op |-> "inject", node |-> n, deps |-> deps]

NextInject ==
    \/ \E n \in Nodes, deps \in SUBSET InjectServices : Inject(n, deps)
    \/ \E n \in Nodes, name \in InjectServices : Provide(n, name)
    \/ \E p \in Nodes : Extend(p)
    \/ \E n \in Nodes, ord \in Orders : Dispose(n, ord)

SpecInject == InitCtx /\ [][NextInject]_vars

\* every name of deps has a value that is not absent
Ready(svcs, deps) == \A dep \in deps : dep \in DOMAIN svcs /\ svcs[dep].val # Null

\* the inject() calls in force: the checkers the live nodes hold a disposer of
Injected(n) ==
    {lifecycle[n].disposables[i].fn : i \in {j \in 1..Len(lifecycle[n].disposables) : lifecycle[n].disposables[j].fn.cb = "inject"}}

\* the callback invocations this step made
NewCalls == {k \in (Len(calls) + 1)..Len(calls') : TRUE}

\* C11: inject(names, cb) made while one of the names is absent does not
\* call cb in that call; a later provide() that completes the set calls cb,
\* by the readiness signal it raises, once and with the node inject was
\* called on.
C11_InjectWaitsForServices ==
    [][/\ IsPrefix(calls, calls')
       /\ (lastCall'.op = "inject" /\ regSeq' = regSeq + 1 /\ ~Ready(services, lastCall'.deps))
            => calls' = calls
       /\ (lastCall'.op = "other" /\ regSeq' = regSeq + 1 /\ services' # services)
            => \A n \in Nodes : \A c \in Injected(n) :
                  (~IsDisposed(n) /\ ~Ready(services, c.deps) /\ Ready(services', c.deps))
                      => Cardinality({k \in NewCalls : calls'[k] = [id |-> c.w, node |-> n, at |-> "service"]}) = 1
      ]_vars

\* a child's inject of both services was made with none there, and its
\* callback has run on a readiness signal
C11_Witness ==
    \E n \in Nodes \ {Root} : \E c \in Injected(n) :
        /\ ~IsDisposed(n)
        /\ c.deps = InjectServices
        /\ \E k \in 1..Len(calls) : calls[k] = [id |-> c.w, node |-> n, at |-> "service"]
        /\ \A k \in 1..Len(calls) : calls[k].id = c.w => calls[k].at = "service"

----------------------------------------------------------------------------
(* SpecFail: the context tree with listeners that throw and plugins whose  *)
(* body throws.                                                             *)

FailEvents == {"dispose", "service"}
FailCallbacks == {"f", "boom"}
BodyOps == {BodyOp("on", "dispose", "boom", ""), BodyOp("on", "service", "f", ""), BodyOp("command", "", "", "echo")}
Bodies == UNION {[1..n -> BodyOps] : n \in 0..2}

PluginApply(p, body, throws) ==
    /\ ~IsDisposed(p)
    /\ Len(parent) + regSeq + Len(body) < MaxSize
    /\ Len(parent) < MaxNodes
    /\ LET w == CtxPluginApply(World, p, body, throws)
       IN /\ Apply(w)
          /\ lastCall' = [op |-> "plugin", body |-> body, throws |-> throws, threw |-> w.err]

NextFail ==
    \/ \E n \in Nodes, event \in FailEvents, cb \in FailCallbacks : On(n, event, cb, FALSE)
    \/ \E n \in Nodes, name \in ServiceNames : Provide(n, name)
    \/ \E p \in Nodes, body \in Bodies, throws \in BOOLEAN : PluginApply(p, body, throws)
    \/ \E n \in Nodes, ord \in Orders : Dispose(n, ord)

SpecFail == InitCtx /\ [][NextFail]_vars

\* the node whose dispose() the step called: "dispose" was emitted for it
\* and not for its parent
Target(n) ==
    /\ dispEmits'[n] > dispEmits[n]
    /\ parent[n] # 0 => dispEmits'[parent[n]] = dispEmits[parent[n]]

\* the children whose disposal node p has collected
Collected(life, p) ==
    {life[p].disposables[i].node : i \in {j \in 1..Len(life[p].disposables) : life[p].disposables[j].kind = "child"}}

\* plugin() on p reported that the body of the plugin of child c threw
FailedPlugin(p, c) == \E k \in 1..Len(calls) : calls[k] = [id |-> c, node |-> p, at |-> "plugin failed"]

\* C15: when the body of a plugin throws, plugin() does not: it returns
\* the child, the child is in the parent's child list, what the body had
\* registered is still registered, and the disposal of the child is
\* collected by the parent, so that a later dispose() of the parent
\* disposes the child and removes what it registered.
C15_PluginFailureContained ==
    [][/\ (lastCall'.op = "plugin" /\ Len(parent') = Len(parent) + 1 /\ lastCall'.throws) =>
            LET c == Len(parent')
                p == parent'[c]
                body == lastCall'.body
            IN /\ ~lastCall'.threw
               /\ \E i \in 1..Len(children'[p]) : children'[p][i] = c
               /\ ~lifecycle'[c].isDisposed
               /\ \A k \in 1..Len(body) :
                     IF body[k].op = "on"
                     THEN \E i \in 1..Len(ListenersOf(listeners', body[k].ev)) :
                             listeners'[body[k].ev][i].by = c /\ listeners'[body[k].ev][i].fn = Fn(body[k].cb, 0)
                     ELSE body[k].name \in DOMAIN commands' /\ commands'[body[k].name].by = c
               /\ c \in Collected(lifecycle', p)
       /\ \A p \in Nodes : (Target(p) /\ ~IsDisposed(p)) =>
            \A c \in Collected(lifecycle, p) : FailedPlugin(p, c) =>
               /\ lifecycle'[c].isDisposed
               /\ \A ev \in DOMAIN listeners' : \A i \in 1..Len(listeners'[ev]) : listeners'[ev][i].by # c
               /\ \A name \in DOMAIN commands' : commands'[name].by # c
      ]_vars

\* C16: dispose() of a node that is not disposed never throws, whatever
\* fails during the teardown; it invokes every collected disposable, and
\* the node is disposed when it returns.
C16_DisposeNeverThrows ==
    [][\A n \in Nodes : (Target(n) /\ ~IsDisposed(n)) =>
            /\ ~lastCall'.threw
            /\ lifecycle'[n].isDisposed
            /\ ranCount'[n] = ranCount[n] + Len(lifecycle[n].disposables)
      ]_vars

----------------------------------------------------------------------------
(* SpecLife: the Lifecycle trackers of a context tree under collect() and  *)
(* dispose() in any order: the registrations of a node collect into its    *)
(* tracker whether or not it is disposed.                                   *)

LifeCallbacks == {"f", "g"}

\* collect(), by Context.on
LifeOn(n, cb) ==
    /\ CanGrow
    /\ Apply(CtxOn(World, n, "e", cb, FALSE))
    /\ lastCall' = NoCall

\* collect(), by Context.plugin
LifePlugin(p) ==
    /\ CanGrow
    /\ Len(parent) < MaxNodes
    /\ Apply(CtxPlugin(World, p))
    /\ lastCall' = NoCall

\* lifecycle.dispose() of node n
LifeDispose(n, ord) ==
    /\ Apply(LifecycleDispose([World EXCEPT !.ord = ord], n))
    /\ lastCall' = [op |-> "lifecycle.dispose", was |-> IsDisposed(n), newly |-> 0]

NextLife ==
    \/ \E n \in Nodes, cb \in LifeCallbacks : LifeOn(n, cb)
    \/ \E p \in Nodes : LifePlugin(p)
    \/ \E n \in Nodes, ord \in Orders : LifeDispose(n, ord)

SpecLife == InitCtx /\ [][NextLife]_vars

\* C18: of every tracker, isDisposed never goes from true back to false;
\* a dispose() of a tracker that is not disposed invokes each of the
\* disposables collected so far once and sets isDisposed; once isDisposed
\* is true no disposable of the tracker is invoked, by dispose() or
\* otherwise, those collected afterwards included: no disposable is
\* invoked twice.
C18_TrackerDisposesOnce ==
    [][\A n \in Nodes :
        /\ lifecycle[n].isDisposed => lifecycle'[n].isDisposed /\ ranCount'[n] = ranCount[n]
        /\ (~lifecycle[n].isDisposed /\ lifecycle'[n].isDisposed) =>
              ranCount'[n] = ranCount[n] + Len(lifecycle[n].disposables)
        /\ (~lifecycle[n].isDisposed /\ ~lifecycle'[n].isDisposed) => ranCount'[n] = ranCount[n]
      ]_vars

\* dispose() was called on a tracker that was disposed after invoking two
\* disposables and has collected another one since
C18_Witness ==
    /\ lastCall.op = "lifecycle.dispose" /\ lastCall.was
    /\ \E n \in Nodes : IsDisposed(n) /\ ranCount[n] = 2 /\ Len(lifecycle[n].disposables) = 1

----------------------------------------------------------------------------
(* SpecOrder: the context tree with listeners of "dispose" that note what *)
(* they see when they are called.                                           *)

NextOrder ==
    \/ \E n \in Nodes : On(n, "dispose", "probe", FALSE)
    \/ \E p \in Nodes : Extend(p)
    \/ \E p \in Nodes : Plugin(p)
    \/ \E n \in Nodes, ord \in Orders : Dispose(n, ord)

SpecOrder == InitCtx /\ [][NextOrder]_vars

\* what the listeners called in this step noted, in call order
Noted == SubSeq(calls', Len(calls) + 1, Len(calls'))

InList(s, n) == \E i \in 1..Len(s) : s[i] = n

\* C21: dispose() of a node that is not disposed first emits "dispose",
\* with the node as it was: every listener of "dispose" is called, those
\* registered through the node included, and finds the node not disposed,
\* none of its disposables run, its listeners on the bus and the node in
\* the child list of its parent.  Then the disposables run: a listener
\* called from one of them finds the node disposed and still in the child
\* list.  When dispose() returns the node is disposed, every disposable
\* has run and the node is not in the child list of its parent.
C21_DisposeOrder ==
    [][\A n \in Nodes : (Target(n) /\ ~IsDisposed(n)) =>
            LET snapshot == ListenersOf(listeners, "dispose")
                inParent(kids) == parent[n] # 0 => InList(kids[parent[n]], n)
            IN /\ Len(Noted) >= Len(snapshot)
               /\ \A i \in 1..Len(snapshot) :
                     /\ Noted[i].at = "dispose" /\ Noted[i].by = snapshot[i].by
                     /\ n \notin Noted[i].disposed
                     /\ Noted[i].ran = ranCount
                     /\ Noted[i].ls = listeners
                     /\ Noted[i].kids = children /\ inParent(Noted[i].kids)
               /\ \A i \in (Len(snapshot) + 1)..Len(Noted) :
                     /\ n \in Noted[i].disposed
                     /\ Noted[i].ran[n] >= 1
                     /\ inParent(Noted[i].kids)
               /\ lifecycle'[n].isDisposed
               /\ ranCount'[n] = ranCount[n] + Len(lifecycle[n].disposables)
               /\ parent[n] # 0 => ~InList(children'[parent[n]], n)
      ]_vars

\* dispose() of a child of the root has returned: its own listener of
\* "dispose" and one of the root were called before the teardown, and the
\* listener of the root again when the teardown disposed the plugin child
\* of the node
C21_Witness ==
    /\ lastCall.op = "dispose" /\ ~lastCall.was /\ lastCall.newly = 2
    /\ Len(calls) >= 3
    /\ \E n \in Nodes \ {Root} :
          /\ IsDisposed(n) /\ parent[n] = Root /\ ~IsDisposed(Root) /\ ~InList(children[Root], n)
          /\ calls[1].at = "dispose" /\ calls[2].at = "dispose"
          /\ {calls[1].by, calls[2].by} = {Root, n}
          /\ n \notin calls[1].disposed /\ n \notin calls[2].disposed
          /\ calls[3].by = Root /\ n \in calls[3].disposed /\ InList(calls[3].kids[Root], n)

----------------------------------------------------------------------------
(* SpecExtend: the context tree with children made by extend() and by      *)
(* plugin(), listeners and commands registered through the nodes, and      *)
(* dispose.                                                                 *)

ExtendCall(p) ==
    /\ ~IsDisposed(p)
    /\ CanGrow
    /\ Len(parent) < MaxNodes
    /\ Apply(CtxExtend(World, p))
    /\ lastCall' = [op |-> "extend", node |-> p]

NextExtend ==
    \/ \E n \in Nodes, event \in CtxEvents, cb \in Callbacks : On(n, event, cb, FALSE)
    \/ \E n \in Nodes, name \in CommandNames : Command(n, name)
    \/ \E p \in Nodes : ExtendCall(p)
    \/ \E p \in Nodes : Plugin(p)
    \/ \E n \in Nodes, ord \in Orders : Dispose(n, ord)

SpecExtend == InitCtx /\ [][NextExtend]_vars

\* the children of m made by extend() alone: m holds no disposable for them
ExtendChildren(m) == {c \in Nodes : parent[c] = m /\ c \notin Collected(lifecycle, m)}

\* C22: extend() appends the child to the child list of the node and
\* collects nothing in the tracker of the node; a dispose() of the parent
\* (called on it or reaching it from above) does not dispose a child made
\* by extend() alone and sends no "dispose" for it, leaves what the child
\* registered in the shared structures, and leaves the child in the child
\* list of the parent.
C22_ExtendNotOwned ==
    [][/\ lastCall'.op = "extend" =>
            LET p == lastCall'.node
            IN /\ Len(parent') = Len(parent) + 1
               /\ parent'[Len(parent')] = p
               /\ children'[p] = Append(children[p], Len(parent'))
               /\ lifecycle'[p] = lifecycle[p]
       /\ \A m \in Nodes : DisposedNow(m) => \A c \in ExtendChildren(m) : ~IsDisposed(c) =>
               /\ ~lifecycle'[c].isDisposed
               /\ dispEmits'[c] = dispEmits[c]
               /\ InList(children'[m], c)
               /\ EffectsKept(c)
      ]_vars

----------------------------------------------------------------------------
(* Claims about inject over the life of a node (SpecInject). *)

\* the calls one readiness signal makes: of the listeners of "service" at
\* the signal, in their order, those whose services are all there
RECURSIVE ExpectedCalls(_, _)
ExpectedCalls(snapshot, svcs) ==
    IF snapshot = <<>> THEN <<>>
    ELSE (IF Ready(svcs, Head(snapshot).fn.deps)
          THEN <<[id |-> Head(snapshot).fn.w, node |-> Head(snapshot).fn.ctx, at |-> "service"]>>
          ELSE <<>>) \o ExpectedCalls(Tail(snapshot), svcs)

\* the calls made in this step of the callback of inject() number id
CallsBy(id) == Cardinality({k \in 1..Len(Noted) : Noted[k].id = id})

\* the readiness signals a dispose() step raises: one for every service
\* that a node disposed in the step resets
Resets ==
    Cardinality({p \in Nodes \X (1..MaxSize) :
        /\ DisposedNow(p[1])
        /\ p[2] <= Len(lifecycle[p[1]].disposables)
        /\ lifecycle[p[1]].disposables[p[2]].kind = "svc"})

----------------------------------------------------------------------------
(* SpecBus: one EventEmitter (core/events.ts) under registrations and the   *)
(* three dispatch modes.  A synchronous dispatch (emit, bail) is the record *)
(* on the stack and advances one listener call per step; what a listener    *)
(* body does to the bus are the registration steps taken between two calls. *)
(* A parallel dispatch is the record join: the synchronous map that starts  *)
(* the listeners, then the promises they returned and Promise.all of them.  *)

BusEvents == {"e"}
BusCallbacks == {"f"}

Undefined == "undefined"
\* what a listener call does: return a value, or throw
Returns == {Undefined, "a", "b"}
Outcomes == Returns \cup {"throw"}
\* what a listener started by parallel() does: return a value that is no
\* promise or a fulfilled promise, a pending promise, a rejected promise
\* (an async function that throws), or throw
Starts == {"value", "pending", "rejected", "throw"}

Dispatch(kind, event, snapshot) ==
    [kind |-> kind, ev |-> event, snap |-> snapshot, i |-> 1, log |-> <<>>, rets |-> <<>>, status |-> "running", result |-> Undefined]

\* what a dispatch iterates over: the copy it made of the event's array
\* when it was called, not the array L of the bus
IteratedLive(rec, L) == ListenersOf(L, rec.ev)

Iterated(rec, L) == rec.snap

\* the loop condition: the dispatch returns when the copy is exhausted
Advance(rec) ==
    IF rec.status = "running" /\ rec.i > Len(rec.snap) THEN [rec EXCEPT !.status = "returned"] ELSE rec

\* EventEmitter.emit, after one listener call
EmitAfter(rec, out) ==
    IF out = "throw" THEN [rec EXCEPT !.status = "thrown"]
    ELSE Advance([rec EXCEPT !.i = @ + 1])

\* EventEmitter.bail, after one listener call
BailAfterNoShortCircuit(rec, out) ==
    IF out = "throw" THEN [rec EXCEPT !.status = "thrown"]
    ELSE Advance([rec EXCEPT !.i = @ + 1, !.result = IF out # Undefined THEN out ELSE @])

BailAfter(rec, out) ==
    IF out = "throw" THEN [rec EXCEPT !.status = "thrown"]
    ELSE IF out # Undefined THEN [rec EXCEPT !.status = "returned", !.result = out]
    ELSE Advance([rec EXCEPT !.i = @ + 1])

\* Promise.all over the promises of the started listeners: rejected as soon
\* as one is rejected, fulfilled when all are fulfilled
PromiseAllFirstFulfilled(st) ==
    IF \E k \in 1..Len(st) : st[k] = "rejected" THEN "rejected"
    ELSE IF st = <<>> \/ \E k \in 1..Len(st) : st[k] = "fulfilled" THEN "fulfilled"
    ELSE "pending"

PromiseAll(st) ==
    IF \E k \in 1..Len(st) : st[k] = "rejected" THEN "rejected"
    ELSE IF \A k \in 1..Len(st) : st[k] = "fulfilled" THEN "fulfilled"
    ELSE "pending"

\* the promise states as the caller's continuation finds them, the
\* listeners never started included
Padded(st, n) == [k \in 1..n |-> IF k <= Len(st) THEN st[k] ELSE "notStarted"]

\* the promise of parallel() takes the outcome of Promise.all once, with the
\* reason of the first rejection
Decide(j, k) ==
    IF j.outcome # "pending" THEN j
    ELSE LET o == PromiseAll(j.st)
         IN IF o = "pending" THEN j
            ELSE [j EXCEPT !.outcome = o, !.at = Padded(j.st, Len(j.snap)), !.reported = IF o = "rejected" THEN {k} ELSE {}]

Parallel(event, snapshot) ==
    [kind |-> "parallel", ev |-> event, snap |-> snapshot, i |-> 1, log |-> <<>>, st |-> <<>>, threw |-> FALSE, outcome |-> "pending", at |-> <<>>, reported |-> {}, async |-> 0]

\* the map is over, the promises are handed to Promise.all
MapDone(j) == j.i > Len(j.snap)

\* one listener call of the map of parallel()
StartAfter(j, out) ==
    LET k == j.i
    IN IF out = "throw"
       THEN [j EXCEPT !.threw = TRUE, !.st = Append(@, "rejected"), !.outcome = "rejected", !.at = Padded(Append(j.st, "rejected"), Len(j.snap)), !.reported = {k}]
       ELSE LET j1 == [j EXCEPT !.i = @ + 1,
                                !.st = Append(@, IF out = "value" THEN "fulfilled" ELSE out),
                                !.async = IF out = "pending" THEN @ + 1 ELSE @]
                first == IF \E m \in 1..Len(j1.st) : j1.st[m] = "rejected"
                         THEN CHOOSE m \in 1..Len(j1.st) : j1.st[m] = "rejected" /\ \A q \in 1..(m - 1) : j1.st[q] # "rejected"
                         ELSE 0
            IN IF MapDone(j1) THEN Decide(j1, first) ELSE j1

Idle == stack = <<>> /\ (join.kind = "parallel" => join.outcome # "pending")

ctxVars == <<middlewares, commands, services, parent, children, lifecycle, dispEmits, ranCount, lastCall, run, calls, tree>>

InitBus ==
    /\ listeners = EmptyMap
    /\ middlewares = <<>>
    /\ commands = EmptyMap
    /\ services = EmptyMap
    /\ parent = <<0>>
    /\ children = <<<<>>>>
    /\ lifecycle = <<NewLifecycle>>
    /\ regSeq = 0
    /\ dispEmits = <<0>>
    /\ ranCount = <<0>>
    /\ lastCall = NoCall
    /\ stack = <<>>
    /\ join = NoDispatch
    /\ done = NoDispatch
    /\ run = NoDispatch
    /\ calls = <<>>
    /\ tree = NoDispatch

BusOn(event, cb, prepend) ==
    /\ regSeq < MaxListeners
    /\ listeners' = EmitterOn(listeners, event, Entry(Fn(cb, 0), 0, regSeq + 1, prepend), prepend)
    /\ regSeq' = regSeq + 1
    /\ done' = NoDispatch
    /\ UNCHANGED <<stack, join, ctxVars>>

BusOnce(event, cb) ==
    /\ regSeq < MaxListeners
    /\ listeners' = EmitterOn(listeners, event, Entry(Fn(cb, regSeq + 1), 0, regSeq + 1, FALSE), FALSE)
    /\ regSeq' = regSeq + 1
    /\ done' = NoDispatch
    /\ UNCHANGED <<stack, join, ctxVars>>

BusOff(event, fn) ==
    /\ IndexOf(ListenersOf(listeners, event), fn) # 0
    /\ listeners' = EmitterOff(listeners, event, fn)
    /\ done' = NoDispatch
    /\ UNCHANGED <<regSeq, stack, join, ctxVars>>

\* emit(event) and bail(event) are called; with no listener they return
Begin(kind, event) ==
    /\ Idle
    /\ LET rec == Advance(Dispatch(kind, event, ListenersOf(listeners, event)))
       IN IF rec.status = "running"
          THEN stack' = <<rec>> /\ done' = NoDispatch
          ELSE stack' = <<>> /\ done' = rec
    /\ join' = NoDispatch
    /\ UNCHANGED <<listeners, regSeq, ctxVars>>

\* the dispatch on the stack calls its next listener
Call(out) ==
    /\ stack # <<>>
    /\ Head(stack).i <= Len(Iterated(Head(stack), listeners))
    /\ LET rec == Head(stack)
           entry == Iterated(rec, listeners)[rec.i]
           rec1 == [rec EXCEPT !.log = Append(@, entry.reg), !.rets = Append(@, out)]
           rec2 == IF rec.kind = "emit" THEN EmitAfter(rec1, out) ELSE BailAfter(rec1, out)
       IN /\ listeners' = IF entry.fn.w # 0 THEN EmitterOff(listeners, rec.ev, entry.fn) ELSE listeners
          /\ IF rec2.status = "running"
             THEN stack' = <<rec2>> /\ done' = NoDispatch
             ELSE stack' = <<>> /\ done' = rec2
    /\ UNCHANGED <<regSeq, join, ctxVars>>

\* parallel(event) is called; with no listener it returns
BeginParallel(event) ==
    /\ Idle
    /\ LET j == Parallel(event, ListenersOf(listeners, event))
       IN join' = IF MapDone(j) THEN Decide(j, 0) ELSE j
    /\ done' = NoDispatch
    /\ UNCHANGED <<listeners, regSeq, stack, ctxVars>>

\* the map of parallel() calls its next listener
Start(out) ==
    /\ join.kind = "parallel" /\ ~join.threw /\ ~MapDone(join)
    /\ join.i <= Len(Iterated(join, listeners))
    /\ LET entry == Iterated(join, listeners)[join.i]
       IN /\ listeners' = IF entry.fn.w # 0 THEN EmitterOff(listeners, join.ev, entry.fn) ELSE listeners
          /\ join' = StartAfter([join EXCEPT !.log = Append(@, entry.reg)], out)
    /\ UNCHANGED <<regSeq, stack, done, ctxVars>>

\* the promise of a started listener settles; none does while the map runs
Settle(k, to) ==
    /\ join.kind = "parallel" /\ (MapDone(join) \/ join.threw)
    /\ k \in 1..Len(join.st) /\ join.st[k] = "pending"
    /\ join' = Decide([join EXCEPT !.st[k] = to], k)
    /\ UNCHANGED <<listeners, regSeq, stack, done, ctxVars>>

NextBus ==
    \/ \E event \in BusEvents, cb \in BusCallbacks, prepend \in BOOLEAN : BusOn(event, cb, prepend)
    \/ \E event \in BusEvents, cb \in BusCallbacks : BusOnce(event, cb)
    \/ \E event \in BusEvents, cb \in BusCallbacks, w \in 0..MaxListeners : BusOff(event, Fn(cb, w))
    \/ \E kind \in {"emit", "bail"}, event \in BusEvents : Begin(kind, event)
    \/ \E out \in Outcomes : Call(out)
    \/ \E event \in BusEvents : BeginParallel(event)
    \/ \E out \in Starts : Start(out)
    \/ \E k \in 1..MaxListeners, to \in {"fulfilled", "rejected"} : Settle(k, to)

SpecBus == InitBus /\ [][NextBus]_vars

----------------------------------------------------------------------------
(* Claims about the event bus (SpecBus). *)

\* the registration numbers of a list of entries, in list order
RegsOf(list) == [j \in 1..Len(list) |-> list[j].reg]

\* C5: a bail() that returns has called the listeners of the event in list
\* order, returns the result of the first one whose result is not
\* undefined and has called none after it; it returns undefined when every
\* listener returned undefined and when there is no listener.
C5_BailFirstResult ==
    (done.kind = "bail" /\ done.status = "returned") =>
        /\ Len(done.log) <= Len(done.snap)
        /\ done.log = SubSeq(RegsOf(done.snap), 1, Len(done.log))
        /\ \A j \in 1..(Len(done.log) - 1) : done.rets[j] = Undefined
        /\ IF done.result = Undefined
           THEN Len(done.log) = Len(done.snap) /\ \A j \in 1..Len(done.log) : done.rets[j] = Undefined
           ELSE Len(done.log) >= 1 /\ done.rets[Len(done.log)] = done.result

\* a bail() returned the value of its second listener and left a third
\* one uncalled
C5_Witness ==
    /\ done.kind = "bail" /\ done.status = "returned"
    /\ done.result # Undefined /\ Len(done.log) = 2 /\ Len(done.snap) = 3

\* list order: the entries registered with prepend come first, the one
\* prepended last before the others, then the entries registered without
\* prepend in the order of their registration
ListOrdered(list) ==
    \A i, j \in 1..Len(list) : i < j =>
        \/ list[i].pre /\ ~list[j].pre
        \/ list[i].pre /\ list[j].pre /\ list[i].reg > list[j].reg
        \/ ~list[i].pre /\ ~list[j].pre /\ list[i].reg < list[j].reg

\* C6: the listeners of an event are kept in list order, and an emit() that
\* returns has called every entry of the list once, in that order.
C6_EmitInListOrder ==
    /\ \A event \in DOMAIN listeners : ListOrdered(listeners[event])
    /\ (done.kind = "emit" /\ done.status = "returned") =>
        /\ ListOrdered(done.snap)
        /\ done.log = RegsOf(done.snap)

\* an emit() returned after calling two prepended listeners and then one
\* registered without prepend
C6_Witness ==
    /\ done.kind = "emit" /\ done.status = "returned" /\ Len(done.log) = 3
    /\ done.snap[1].pre /\ done.snap[2].pre /\ ~done.snap[3].pre

\* the promise of listener k settles in this step
SettledNow(k) ==
    /\ join.kind = "parallel" /\ join'.kind = "parallel"
    /\ k <= Len(join.st) /\ k <= Len(join'.st)
    /\ join.st[k] = "pending" /\ join'.st[k] # "pending"

\* C9: parallel() has started every listener of the event before the
\* promise of any of them settles, and its own promise is fulfilled only
\* when every listener was started and the promise of each is fulfilled.
C9_ParallelFanOutJoin ==
    [][/\ (join.kind = "parallel" /\ ~join.threw /\ \E k \in 1..Len(join.st) : SettledNow(k)) => Len(join.st) = Len(join.snap)
       /\ (join'.kind = "parallel" /\ join'.outcome = "fulfilled") => (Len(join'.st) = Len(join'.snap) /\ \A k \in 1..Len(join'.st) : join'.st[k] = "fulfilled")]_vars

\* a parallel() is fulfilled whose two listeners both returned a pending
\* promise
C9_Witness ==
    join.kind = "parallel" /\ join.outcome = "fulfilled" /\ join.async >= 2 /\ Len(join.snap) >= 2

\* C10: when a listener of a parallel() fails, the promise of parallel() is
\* rejected; it is rejected only once every listener of the dispatch was
\* started and has settled, and no failure of a listener goes unreported.
C10_ParallelFailureReported ==
    join.kind = "parallel" =>
        /\ ((\E k \in 1..Len(join.st) : join.st[k] = "rejected") /\ (\A k \in 1..Len(join.st) : join.st[k] # "pending")) => join.outcome = "rejected"
        /\ join.outcome = "rejected" => \A k \in 1..Len(join.snap) : join.at[k] \in {"fulfilled", "rejected"}
        /\ join.outcome # "pending" => \A k \in 1..Len(join.st) : join.st[k] = "rejected" => k \in join.reported

\* C12: a dispatch works on the list of the event as it was when the
\* dispatch was called: emit, bail and parallel call the listeners of that
\* list and no other, in its order, whatever is added to or removed from
\* the bus while the dispatch runs; a dispatch called later starts from
\* the list as it then is.
C12_DispatchOnSnapshot ==
    [][/\ (stack = <<>> /\ stack' # <<>>) => stack'[1].snap = ListenersOf(listeners, stack'[1].ev)
       /\ (stack # <<>> /\ stack' # <<>>) =>
              stack'[1].snap = stack[1].snap /\ IsPrefix(stack'[1].log, RegsOf(stack[1].snap))
       /\ (stack # <<>> /\ stack' = <<>>) =>
              /\ done'.snap = stack[1].snap /\ IsPrefix(done'.log, RegsOf(stack[1].snap))
              /\ (done'.kind = "emit" /\ done'.status = "returned") => done'.log = RegsOf(stack[1].snap)
       /\ (stack = <<>> /\ stack' = <<>> /\ done' # done /\ done'.kind # "none") =>
              done'.snap = ListenersOf(listeners, done'.ev) /\ done'.snap = <<>>
       /\ (join' # join /\ join'.kind = "parallel" /\ join'.st = <<>>) =>
              join'.snap = ListenersOf(listeners, join'.ev)
       /\ (join.kind = "parallel" /\ join'.kind = "parallel" /\ join'.st # <<>>) =>
              /\ join'.snap = join.snap /\ IsPrefix(join'.log, RegsOf(join.snap))
              /\ join'.outcome = "fulfilled" => join'.log = RegsOf(join.snap)
      ]_vars

\* an emit() has returned after calling both listeners of its list, while
\* since it was called the second was removed from the bus and a third
\* listener, which it did not call, was added
C12_Witness ==
    /\ done.kind = "emit" /\ done.status = "returned"
    /\ Len(done.snap) = 2 /\ done.log = RegsOf(done.snap)
    /\ done.snap[1].fn.w = 0
    /\ done.snap[2].fn.w = 0
    /\ \A i \in 1..Len(ListenersOf(listeners, done.ev)) : listeners[done.ev][i].reg # done.snap[2].reg
    /\ \E i \in 1..Len(ListenersOf(listeners, done.ev)) : listeners[done.ev][i].reg \notin {done.snap[1].reg, done.snap[2].reg}

\* C26: an emit() that has ended, also one in which a listener threw,
\* has called every listener of the list of the event as it was at the
\* call, those after the listener that threw included.
C26_EmitCompletesDespiteFailure ==
    done.kind = "emit" => done.log = RegsOf(done.snap)

----------------------------------------------------------------------------
(* SpecNest: one EventEmitter with emit and bail called from inside a       *)
(* listener.  A listener call is two steps, its start and its return; while *)
(* the innermost dispatch is inside a call, the listener called may call    *)
(* emit or bail, which puts a dispatch on top of the stack.                 *)

\* the record is inside a listener call
Busy(rec) == Len(rec.log) > Len(rec.rets)

\* wrappedListener of once(), before it calls the listener: dispose(),
\* which is off(event, wrappedListener); any other function does nothing
\* to the bus by itself
WrappedCallNoDispose(L, event, entry) == L

WrappedCall(L, event, entry) ==
    IF entry.fn.w # 0 THEN EmitterOff(L, event, entry.fn) ELSE L

\* emit(event) or bail(event) is called, by the host or by the listener
\* that is running
NestBegin(kind, event) ==
    /\ Len(stack) < MaxDepth
    /\ stack # <<>> => Busy(Head(stack))
    /\ LET rec == Advance(Dispatch(kind, event, ListenersOf(listeners, event)))
       IN IF rec.status = "running"
          THEN stack' = <<rec>> \o stack /\ done' = NoDispatch
          ELSE stack' = stack /\ done' = rec
    /\ UNCHANGED <<listeners, regSeq, join, ctxVars>>

\* the innermost dispatch calls its next listener
NestEnter ==
    /\ stack # <<>> /\ ~Busy(Head(stack))
    /\ LET rec == Head(stack)
           entry == rec.snap[rec.i]
       IN /\ listeners' = WrappedCall(listeners, rec.ev, entry)
          /\ stack' = <<[rec EXCEPT !.log = Append(@, entry.reg)]>> \o Tail(stack)
    /\ done' = NoDispatch
    /\ UNCHANGED <<regSeq, join, ctxVars>>

\* the listener called by the innermost dispatch returns or throws; the
\* wrapper of once() returns what its listener returns
NestReturn(out) ==
    /\ stack # <<>> /\ Busy(Head(stack))
    /\ LET rec == Head(stack)
           rec1 == [rec EXCEPT !.rets = Append(@, out)]
           rec2 == IF rec.kind = "emit" THEN EmitAfter(rec1, out) ELSE BailAfter(rec1, out)
       IN IF rec2.status = "running"
          THEN stack' = <<rec2>> \o Tail(stack) /\ done' = NoDispatch
          ELSE stack' = Tail(stack) /\ done' = rec2
    /\ UNCHANGED <<listeners, regSeq, join, ctxVars>>

NextNest ==
    \/ \E event \in BusEvents, cb \in BusCallbacks : BusOn(event, cb, FALSE)
    \/ \E event \in BusEvents, cb \in BusCallbacks : BusOnce(event, cb)
    \/ \E kind \in {"emit", "bail"}, event \in BusEvents : NestBegin(kind, event)
    \/ NestEnter
    \/ \E out \in Outcomes : NestReturn(out)

SpecNest == InitBus /\ [][NextNest]_vars

\* the entries of once() that the dispatch has called, the one it is
\* inside included
CalledOnce(rec) == {rec.snap[k] : k \in {j \in 1..Len(rec.log) : rec.snap[j].fn.w # 0}}

\* C17: a listener registered with once() is off the bus before it is
\* called the first time: while it runs and afterwards the bus does not
\* hold it, so that an emit or bail of the same event called from inside
\* it does not call it again; and what it returns is what the dispatch
\* gets from the call (bail returns it when it is not undefined).
C17_OnceRemovedBeforeCall ==
    /\ \A a \in 1..Len(stack) : \A e \in CalledOnce(stack[a]) :
          /\ IndexOf(ListenersOf(listeners, stack[a].ev), e.fn) = 0
          /\ \A b \in 1..(a - 1) : stack[b].ev = stack[a].ev =>
                \A k \in 1..Len(stack[b].snap) : stack[b].snap[k].fn # e.fn
    /\ done.kind # "none" =>
          /\ \A e \in CalledOnce(done) : IndexOf(ListenersOf(listeners, done.ev), e.fn) = 0
          /\ (done.kind = "bail" /\ done.status = "returned" /\ done.log # <<>> /\ done.snap[Len(done.log)].fn.w # 0) =>
                done.result = done.rets[Len(done.log)]

\* a listener registered with once() is running, it has called emit or
\* bail of its own event, and that dispatch is calling another listener
C17_Witness ==
    /\ Len(stack) = 2
    /\ Busy(stack[2]) /\ stack[2].snap[Len(stack[2].log)].fn.w # 0
    /\ stack[1].ev = stack[2].ev
    /\ Busy(stack[1])

----------------------------------------------------------------------------
(* SpecOnce: SpecNest with a record, in calls, of every call of a listener  *)
(* that was registered with once(): the number of its registration, one     *)
(* item for each time a dispatch calls its wrapper, which calls the         *)
(* callback.                                                                *)

onceRest == <<middlewares, commands, services, parent, children, lifecycle, dispEmits, ranCount, lastCall, run, tree>>

\* the innermost dispatch calls its next listener: the wrapper of once()
\* does dispose() and then calls the callback it wraps
OnceEnter ==
    /\ stack # <<>> /\ ~Busy(Head(stack))
    /\ LET rec == Head(stack)
           entry == rec.snap[rec.i]
       IN /\ listeners' = WrappedCall(listeners, rec.ev, entry)
          /\ stack' = <<[rec EXCEPT !.log = Append(@, entry.reg)]>> \o Tail(stack)
          /\ calls' = IF entry.fn.w # 0 THEN Append(calls, entry.reg) ELSE calls
    /\ done' = NoDispatch
    /\ UNCHANGED <<regSeq, join, onceRest>>

NextOnce ==
    \/ \E event \in BusEvents, cb \in BusCallbacks : BusOn(event, cb, FALSE)
    \/ \E event \in BusEvents, cb \in BusCallbacks : BusOnce(event, cb)
    \/ \E kind \in {"emit", "bail"}, event \in BusEvents : NestBegin(kind, event)
    \/ OnceEnter
    \/ \E out \in Outcomes : NestReturn(out)

SpecOnce == InitBus /\ [][NextOnce]_vars

\* C28: the callback of a once() registration is called at most once over
\* all dispatches, those included that a listener starts for the same name
\* while an outer dispatch is still walking its copy of the list.
C28_OnceAtMostOnce ==
    \A i, j \in 1..Len(calls) : calls[i] = calls[j] => i = j

----------------------------------------------------------------------------
(* SpecOff: one EventEmitter with two event names under on, once, off (of  *)
(* any function, registered or not; a disposer is such a call) and emit.    *)

OffEvents == {"d", "e"}
OffCallbacks == {"f", "g"}

offRest == <<stack, join, done, middlewares, commands, services, parent, children, lifecycle, dispEmits, ranCount, run, calls, tree>>

OffOn(event, cb, prepend) ==
    /\ regSeq < MaxListeners
    /\ listeners' = EmitterOn(listeners, event, Entry(Fn(cb, 0), 0, regSeq + 1, prepend), prepend)
    /\ regSeq' = regSeq + 1
    /\ lastCall' = NoCall
    /\ UNCHANGED offRest

OffOnce(event, cb) ==
    /\ regSeq < MaxListeners
    /\ listeners' = EmitterOn(listeners, event, Entry(Fn(cb, regSeq + 1), 0, regSeq + 1, FALSE), FALSE)
    /\ regSeq' = regSeq + 1
    /\ lastCall' = NoCall
    /\ UNCHANGED offRest

\* off(event, fn), also as the disposer returned by on and once
Off(event, fn) ==
    /\ listeners' = EmitterOff(listeners, event, fn)
    /\ lastCall' = [op |-> "off", ev |-> event, fn |-> fn]
    /\ UNCHANGED <<regSeq, offRest>>

\* emit(event), all of it: the entries of once() remove themselves
OffEmit(event) ==
    /\ Apply(Emit(World, event))
    /\ lastCall' = NoCall

NextOff ==
    \/ \E event \in OffEvents, cb \in OffCallbacks, prepend \in BOOLEAN : OffOn(event, cb, prepend)
    \/ \E event \in OffEvents, cb \in OffCallbacks : OffOnce(event, cb)
    \/ \E event \in OffEvents, cb \in OffCallbacks, w \in 0..MaxListeners : Off(event, Fn(cb, w))
    \/ \E event \in OffEvents : OffEmit(event)

SpecOff == InitBus /\ [][NextOff]_vars

\* the places of fn in a list
PlacesOf(list, fn) == {i \in 1..Len(list) : list[i].fn = fn}

\* a list without its entry at place i
Without(list, i) == [j \in 1..(Len(list) - 1) |-> IF j < i THEN list[j] ELSE list[j + 1]]

\* C20: the bus never holds an event name with an empty list.  off(name,
\* l) removes the first entry equal to l and no other, leaves the other
\* entries of the name in their order and the other names as they are, and
\* removes the name when nothing is left of its list; off of a listener
\* that is not registered under the name changes nothing.
C20_OffRemovesFirstMatch ==
    [][/\ \A event \in DOMAIN listeners' : listeners'[event] # <<>>
       /\ lastCall'.op = "off" =>
            LET event == lastCall'.ev
                list == IF event \in DOMAIN listeners THEN listeners[event] ELSE <<>>
                places == PlacesOf(list, lastCall'.fn)
            IN IF places = {}
               THEN listeners' = listeners
               ELSE LET first == CHOOSE i \in places : \A j \in places : i <= j
                    IN /\ DOMAIN listeners' = IF Len(list) = 1 THEN DOMAIN listeners \ {event} ELSE DOMAIN listeners
                       /\ \A other \in DOMAIN listeners \ {event} : listeners'[other] = listeners[other]
                       /\ Len(list) > 1 => listeners'[event] = Without(list, first)
      ]_vars

\* off has removed the first of two entries of one function and the other
\* is still registered, under a name that has a third entry
C20_Witness ==
    /\ lastCall.op = "off"
    /\ regSeq = 3
    /\ lastCall.ev \in DOMAIN listeners
    /\ DOMAIN listeners = {lastCall.ev}
    /\ Len(listeners[lastCall.ev]) = 2
    /\ Cardinality(PlacesOf(listeners[lastCall.ev], lastCall.fn)) = 1

----------------------------------------------------------------------------
(* SpecDisposer: the disposers that on, once and middleware return.  The   *)
(* registrations are made through the nodes of a context tree, which       *)
(* collect each disposer; the caller holds it too and may call it at any   *)
(* time, before the dispose() of the node calls it.  The entries and the    *)
(* disposers carry the number of the registration that made them.           *)

DisposerCallbacks == {"f", "g"}

\* the disposer a registration returns: () => this.off(event, listener), or
\* () => this.remove(middleware)
Held(kind, event, fn, reg) == [kind |-> kind, ev |-> event, fn |-> fn, name |-> "", node |-> 0, reg |-> reg]

disposerRest == <<commands, services, parent, children, dispEmits, ranCount, stack, join, done, run, calls, tree>>

DisposerOn(n, event, cb, prepend) ==
    /\ CanRegister(n) /\ regSeq < MaxListeners
    /\ listeners' = EmitterOn(listeners, event, Entry(Fn(cb, 0), n, regSeq + 1, prepend), prepend)
    /\ lifecycle' = [lifecycle EXCEPT ![n].disposables = Append(@, Held("off", event, Fn(cb, 0), regSeq + 1))]
    /\ regSeq' = regSeq + 1
    /\ lastCall' = NoCall
    /\ UNCHANGED <<middlewares, disposerRest>>

DisposerOnce(n, event, cb) ==
    /\ CanRegister(n) /\ regSeq < MaxListeners
    /\ listeners' = EmitterOn(listeners, event, Entry(Fn(cb, regSeq + 1), n, regSeq + 1, FALSE), FALSE)
    /\ lifecycle' = [lifecycle EXCEPT ![n].disposables = Append(@, Held("off", event, Fn(cb, regSeq + 1), regSeq + 1))]
    /\ regSeq' = regSeq + 1
    /\ lastCall' = NoCall
    /\ UNCHANGED <<middlewares, disposerRest>>

DisposerMiddleware(n, cb, prepend) ==
    /\ CanRegister(n) /\ regSeq < MaxListeners
    /\ middlewares' = MiddlewareAdd(middlewares, Entry(Fn(cb, 0), n, regSeq + 1, prepend), prepend)
    /\ lifecycle' = [lifecycle EXCEPT ![n].disposables = Append(@, Held("remove", "", Fn(cb, 0), regSeq + 1))]
    /\ regSeq' = regSeq + 1
    /\ lastCall' = NoCall
    /\ UNCHANGED <<listeners, disposerRest>>

\* the caller calls the disposer that the k-th registration of node n
\* returned
DisposerCall(n, k) ==
    /\ k <= Len(lifecycle[n].disposables)
    /\ lifecycle[n].disposables[k].kind \in {"off", "remove"}
    /\ Apply(RunDisposable(World, lifecycle[n].disposables[k]))
    /\ lastCall' = [op |-> "disposer", d |-> lifecycle[n].disposables[k]]

NextDisposer ==
    \/ \E n \in Nodes, event \in BusEvents, cb \in DisposerCallbacks, prepend \in BOOLEAN : DisposerOn(n, event, cb, prepend)
    \/ \E n \in Nodes, event \in BusEvents, cb \in DisposerCallbacks : DisposerOnce(n, event, cb)
    \/ \E n \in Nodes, cb \in DisposerCallbacks, prepend \in BOOLEAN : DisposerMiddleware(n, cb, prepend)
    \/ \E n \in Nodes, k \in 1..MaxListeners : DisposerCall(n, k)
    \/ \E p \in Nodes : Extend(p)
    \/ \E n \in Nodes, ord \in Orders : Dispose(n, ord)

SpecDisposer == InitBus /\ [][NextDisposer]_vars

\* the list that the disposer d works on, and the place in it of the
\* registration that returned d (0 when it is there no more)
ListOf(L, M, d) == IF d.kind = "off" THEN ListenersOf(L, d.ev) ELSE M

PlaceOfReg(list, reg) ==
    IF \E i \in 1..Len(list) : list[i].reg = reg THEN CHOOSE i \in 1..Len(list) : list[i].reg = reg ELSE 0

\* C27: the disposer returned by on(name, l) removes the registration made
\* by that call and no other: the listeners of the name are afterwards
\* those of before without the entry of that registration, in the same
\* order, also when l is registered under the name more than once.
C27_DisposerRemovesOwnEntry ==
    [][(lastCall'.op = "disposer" /\ lastCall'.d.kind = "off" /\ lastCall'.d.fn.w = 0) =>
            LET d == lastCall'.d
                list == ListenersOf(listeners, d.ev)
                place == PlaceOfReg(list, d.reg)
            IN place # 0 => FnsOf(ListenersOf(listeners', d.ev)) = FnsOf(Without(list, place))
      ]_vars

\* the registrations that are in a list of the bus or in the pipeline
RegsPresent(L, M) ==
    {r \in 1..MaxListeners :
        \/ \E e \in DOMAIN L : \E i \in 1..Len(L[e]) : L[e][i].reg = r
        \/ \E i \in 1..Len(M) : M[i].reg = r}

\* the registrations whose disposers the nodes in S have collected
HeldRegs(life, S) ==
    {r \in 1..MaxListeners : \E n \in S : \E k \in 1..Len(life[n].disposables) :
        life[n].disposables[k].kind \in {"off", "remove"} /\ life[n].disposables[k].reg = r}

NewlyDisposed == DisposedNodes(lifecycle') \ DisposedNodes(lifecycle)

\* C29: a disposer returned by on, once or middleware that is called when
\* its registration is already removed changes nothing: it leaves the
\* lists of the bus and the pipeline as they are, whether the caller calls
\* it by hand or the dispose() of the node calls the collected copy.
C29_DisposerIdempotent ==
    [][/\ (lastCall'.op = "disposer" /\ lastCall'.d.reg \notin RegsPresent(listeners, middlewares)) =>
            (listeners' = listeners /\ middlewares' = middlewares)
       /\ (lastCall'.op = "dispose" /\ HeldRegs(lifecycle, NewlyDisposed) \cap RegsPresent(listeners, middlewares) = {}) =>
            (listeners' = listeners /\ middlewares' = middlewares)
      ]_vars

----------------------------------------------------------------------------
(* SpecReenter: Context.dispose step by step, with "dispose" listeners     *)
(* that call dispose() themselves.  stack holds the dispose() calls in      *)
(* progress, the innermost first; each is inside its emit("dispose") and    *)
(* walks the copy of the list it took.  The listener "again" calls          *)
(* dispose() of the node it was registered through, "plain" does nothing.   *)
(* calls notes every run of a teardown: the node whose Lifecycle.dispose    *)
(* passed its guard.  The nodes are made by extend(), so that no teardown   *)
(* disposes another node.  A call stack of more than MaxDepth dispose()     *)
(* calls overflows: the RangeError leaves every call in progress.           *)

ReCallbacks == {"again", "plain"}

\* dispose() past its guard, at this.emit("dispose"): emit has copied the
\* list
DisposeFrame(n, L) == [node |-> n, snap |-> ListenersOf(L, "dispose"), i |-> 1, busy |-> FALSE]

reRest == <<middlewares, commands, services, parent, regSeq, join, done, run, tree>>

ReOn(n, cb) == stack = <<>> /\ DisposerOn(n, "dispose", cb, FALSE)

ReOnce(n, cb) == stack = <<>> /\ DisposerOnce(n, "dispose", cb)

ReExtend(p) == stack = <<>> /\ Extend(p)

\* the host calls dispose() of node n; a call that overflowed can be
\* made again, up to MaxEmits emits
ReDispose(n) ==
    /\ stack = <<>>
    /\ dispEmits[n] < MaxEmits
    /\ IF IsDisposed(n)
       THEN UNCHANGED <<stack, dispEmits>>
       ELSE /\ stack' = <<DisposeFrame(n, listeners)>>
            /\ dispEmits' = [dispEmits EXCEPT ![n] = @ + 1]
    /\ lastCall' = [op |-> "dispose", was |-> IsDisposed(n), inside |-> 0]
    /\ UNCHANGED <<listeners, lifecycle, children, ranCount, calls, reRest>>

\* the emit of the innermost dispose() calls its next listener; "again"
\* calls dispose() of its node, which returns at the guard or goes on to
\* its own emit
ReListener ==
    /\ stack # <<>> /\ ~Head(stack).busy /\ Head(stack).i <= Len(Head(stack).snap)
    /\ LET top == Head(stack)
           entry == top.snap[top.i]
           n == entry.by
       IN /\ listeners' = WrappedCall(listeners, "dispose", entry)
          /\ IF entry.fn.cb = "again" /\ ~IsDisposed(n)
             THEN IF Len(stack) < MaxDepth
                  THEN /\ stack' = <<DisposeFrame(n, listeners'), [top EXCEPT !.busy = TRUE]>> \o Tail(stack)
                       /\ dispEmits' = [dispEmits EXCEPT ![n] = @ + 1]
                       /\ lastCall' = [op |-> "dispose", was |-> FALSE, inside |-> top.node]
                  ELSE /\ stack' = <<>>
                       /\ lastCall' = [op |-> "overflow", was |-> FALSE, inside |-> top.node]
                       /\ UNCHANGED dispEmits
             ELSE /\ stack' = <<[top EXCEPT !.i = @ + 1]>> \o Tail(stack)
                  /\ lastCall' = IF entry.fn.cb = "again" THEN [op |-> "dispose", was |-> TRUE, inside |-> top.node] ELSE NoCall
                  /\ UNCHANGED dispEmits
    /\ UNCHANGED <<lifecycle, children, ranCount, calls, reRest>>

\* the emit of the innermost dispose() has ended: this.lifecycle.dispose(),
\* the splice, and the return to the listener that called, if one did
ReFinish ==
    /\ stack # <<>> /\ ~Head(stack).busy /\ Head(stack).i > Len(Head(stack).snap)
    /\ LET n == Head(stack).node
           w == LeaveParent(LifecycleDispose(World, n), n)
       IN /\ listeners' = w.ls
          /\ lifecycle' = w.life
          /\ children' = w.kids
          /\ ranCount' = w.ran
          /\ calls' = IF IsDisposed(n) THEN calls ELSE Append(calls, n)
    /\ stack' = IF Len(stack) = 1 THEN <<>>
                ELSE <<[stack[2] EXCEPT !.busy = FALSE, !.i = @ + 1]>> \o Tail(Tail(stack))
    /\ lastCall' = NoCall
    /\ UNCHANGED <<dispEmits, reRest>>

NextReenter ==
    \/ \E n \in Nodes, cb \in ReCallbacks : ReOn(n, cb)
    \/ \E n \in Nodes, cb \in ReCallbacks : ReOnce(n, cb)
    \/ \E p \in Nodes : ReExtend(p)
    \/ \E n \in Nodes : ReDispose(n)
    \/ ReListener
    \/ ReFinish

SpecReenter == InitBus /\ [][NextReenter]_vars

TeardownsOf(n) == Cardinality({i \in 1..Len(calls) : calls[i] = n})

\* C30: for every node the "dispose" event of the node is emitted at most
\* once and its teardown runs at most once, also when a listener of that
\* event calls dispose() of the node again while the first call is in
\* progress: the inner call has no effect and the outer call ends (no call
\* stack is exhausted).
C30_DisposeOnceReentrant ==
    /\ \A n \in Nodes : dispEmits[n] <= 1 /\ TeardownsOf(n) <= 1
    /\ lastCall.op # "overflow"

----------------------------------------------------------------------------
(* SpecPipe: one MiddlewareManager (core/middleware.ts) under add, remove   *)
(* and run.  A run is the record run: the copy of the stage list, what each *)
(* stage of the copy does with its next, the stage calls that have not      *)
(* returned (innermost first) and the trace of the run so far.  run() is    *)
(* asynchronous: add and remove may happen between two of its steps.        *)

PipeFns == {"A", "B"}

\* what a stage does with next: it awaits next() once, it returns without
\* calling next, or it awaits next() a second time
Behaviours == {"next", "stop", "twice"}

NextCalls(b) == CASE b = "next" -> 1 [] b = "stop" -> 0 [] b = "twice" -> 2

Run(snapshot, beh) ==
    [kind |-> "run", snap |-> snapshot, beh |-> beh, frames |-> <<>>, trace |-> <<>>, status |-> "running"]

\* run() completes when dispatch(0) has returned
Complete(r) == IF r.frames = <<>> THEN [r EXCEPT !.status = "done"] ELSE r

\* dispatch(index), with the stages numbered from 1: past the last stage the
\* final handler is called, else the stage is called with its next
RunEnterOffByOne(r, i) ==
    IF i >= Len(r.snap) THEN [r EXCEPT !.trace = Append(@, <<"final", 0>>)]
    ELSE [r EXCEPT !.frames = <<[idx |-> i, calls |-> 0]>> \o @, !.trace = Append(@, <<"enter", i>>)]

RunEnter(r, i) ==
    IF i > Len(r.snap) THEN [r EXCEPT !.trace = Append(@, <<"final", 0>>)]
    ELSE [r EXCEPT !.frames = <<[idx |-> i, calls |-> 0]>> \o @, !.trace = Append(@, <<"enter", i>>)]

\* the innermost stage call goes on: it calls its next, which is
\* dispatch(index + 1), or it returns to the dispatch that called it
StageStepFallThrough(r) ==
    LET f == Head(r.frames)
    IN IF f.calls < NextCalls(r.beh[f.idx])
       THEN RunEnter([r EXCEPT !.frames[1].calls = @ + 1], f.idx + 1)
       ELSE IF f.calls = 0
            THEN RunEnter([r EXCEPT !.frames[1].calls = 1, !.trace = Append(@, <<"exit", f.idx>>)], f.idx + 1)
            ELSE Complete([r EXCEPT !.frames = Tail(@), !.trace = Append(@, <<"exit", f.idx>>)])

StageStep(r) ==
    LET f == Head(r.frames)
    IN IF f.calls < NextCalls(r.beh[f.idx])
       THEN RunEnter([r EXCEPT !.frames[1].calls = @ + 1], f.idx + 1)
       ELSE Complete([r EXCEPT !.frames = Tail(@), !.trace = Append(@, <<"exit", f.idx>>)])

Running == run.kind = "run" /\ run.status = "running"

\* a completed run has been handed to its caller
Handed == IF Running THEN run ELSE NoDispatch

InitPipe ==
    /\ listeners = EmptyMap
    /\ middlewares = <<>>
    /\ commands = EmptyMap
    /\ services = EmptyMap
    /\ parent = <<0>>
    /\ children = <<<<>>>>
    /\ lifecycle = <<NewLifecycle>>
    /\ regSeq = 0
    /\ dispEmits = <<0>>
    /\ ranCount = <<0>>
    /\ lastCall = NoCall
    /\ stack = <<>>
    /\ join = NoDispatch
    /\ done = NoDispatch
    /\ run = NoDispatch
    /\ calls = <<>>
    /\ tree = NoDispatch

pipeRest == <<listeners, commands, services, parent, children, lifecycle, dispEmits, ranCount, lastCall, stack, join, done, calls, tree>>

PipeAdd(cb, prepend) ==
    /\ regSeq < MaxListeners
    /\ middlewares' = MiddlewareAdd(middlewares, Entry(Fn(cb, 0), 0, regSeq + 1, prepend), prepend)
    /\ regSeq' = regSeq + 1
    /\ run' = Handed
    /\ UNCHANGED pipeRest

PipeRemove(fn) ==
    /\ IndexOf(middlewares, fn) # 0
    /\ middlewares' = MiddlewareRemove(middlewares, fn)
    /\ run' = Handed
    /\ UNCHANGED <<regSeq, pipeRest>>

\* run(session, finalHandler) is called: the copy is taken and dispatch(0)
\* is called
RunBegin(beh) ==
    /\ ~Running
    /\ run' = Complete(RunEnter(Run(middlewares, beh), 1))
    /\ UNCHANGED <<middlewares, regSeq, pipeRest>>

RunStep ==
    /\ Running
    /\ run' = StageStep(run)
    /\ UNCHANGED <<middlewares, regSeq, pipeRest>>

NextPipe ==
    \/ \E cb \in PipeFns, prepend \in BOOLEAN : PipeAdd(cb, prepend)
    \/ \E cb \in PipeFns : PipeRemove(Fn(cb, 0))
    \/ \E beh \in [1..Len(middlewares) -> Behaviours] : RunBegin(beh)
    \/ RunStep

SpecPipe == InitPipe /\ [][NextPipe]_vars

----------------------------------------------------------------------------
(* Claims about the pipeline (SpecPipe). *)


Enters(n) == [j \in 1..n |-> <<"enter", j>>]
Exits(n) == [j \in 1..n |-> <<"exit", n + 1 - j>>]

\* stage k of the run returns without calling next, and every stage before
\* it awaits next() once
StopsAt(k) ==
    /\ k \in 1..Len(run.snap)
    /\ run.beh[k] = "stop"
    /\ \A j \in 1..(k - 1) : run.beh[j] = "next"

\* C7: when a stage returns without calling next and the stages before it
\* call next once, the run calls the stages up to that one once each, in
\* order, calls neither a later stage nor the final handler, and each
\* earlier stage resumes only when the stage after it has returned.
C7_NoNextEndsChain ==
    run.kind = "run" => \A k \in 1..Len(run.snap) : StopsAt(k) =>
        /\ IsPrefix(run.trace, Enters(k) \o Exits(k))
        /\ run.status = "done" => run.trace = Enters(k) \o Exits(k)

\* a run of three stages is complete in which the first stage called next
\* and the second did not
C7_Witness ==
    /\ run.kind = "run" /\ run.status = "done"
    /\ Len(run.snap) = 3 /\ StopsAt(2) /\ Len(run.trace) = 4

\* C8: the stage list is in list order (prepended stages first), and a run
\* whose stages all await next() once calls the stages in list order, then
\* the final handler once, then lets the stages return in reverse order,
\* and is complete only then; without stages it calls the final handler
\* once.
C8_OnionOrder ==
    /\ ListOrdered(middlewares)
    /\ (run.kind = "run" /\ \A j \in 1..Len(run.snap) : run.beh[j] = "next") =>
        LET n == Len(run.snap)
            onion == Enters(n) \o <<<<"final", 0>>>> \o Exits(n)
        IN /\ ListOrdered(run.snap)
           /\ IsPrefix(run.trace, onion)
           /\ run.status = "done" <=> run.trace = onion

\* a run is complete in which three stages, the first of them prepended,
\* all called next
C8_Witness ==
    /\ run.kind = "run" /\ run.status = "done"
    /\ Len(run.snap) = 3 /\ run.snap[1].pre /\ ~run.snap[3].pre
    /\ \A j \in 1..3 : run.beh[j] = "next"
    /\ Len(run.trace) = 7

----------------------------------------------------------------------------
(* SpecCmd: one CommandManager (command.ts) under register, action, remove *)
(* and execute.  The text to execute is any text of at most MaxLen pieces,  *)
(* drawn at the start.                                                      *)

MaxLen == 5

Words == {"echo", "help", "hi", "there", "bogus"} \cup LongOptions \cup ShortOptions
Pieces == Words \cup {" "}

\* the texts: no word next to a word, a word being a maximal run
Contents ==
    {c \in UNION {[1..n -> Pieces] : n \in 0..MaxLen} :
        \A i \in 1..(Len(c) - 1) : c[i] = " " \/ c[i + 1] = " "}

\* the command definitions registered
Defs == {<<"echo", " ", "<msg>">>, <<"help">>, <<"hi">>}

\* the text, not executed on the table as it is
Text(content) == [kind |-> "text", content |-> content]

InitCmd ==
    /\ listeners = EmptyMap
    /\ middlewares = <<>>
    /\ commands = EmptyMap
    /\ services = EmptyMap
    /\ parent = <<0>>
    /\ children = <<<<>>>>
    /\ lifecycle = <<NewLifecycle>>
    /\ regSeq = 0
    /\ dispEmits = <<0>>
    /\ ranCount = <<0>>
    /\ lastCall = NoCall
    /\ stack = <<>>
    /\ join = NoDispatch
    /\ done \in {Text(content) : content \in Contents}
    /\ run = NoDispatch
    /\ calls = <<>>
    /\ tree = NoDispatch

cmdRest == <<listeners, middlewares, services, parent, children, lifecycle, regSeq, dispEmits, ranCount, lastCall, stack, join, run, calls, tree>>

\* register(def, description), and register(def, description).action(cb)
CmdRegister(def, withAction) ==
    /\ commands' = IF withAction
                   THEN CommandAction(CommandRegister(commands, CommandName(def), 0), CommandName(def))
                   ELSE CommandRegister(commands, CommandName(def), 0)
    /\ done' = Text(done.content)
    /\ UNCHANGED cmdRest

CmdRemove(name) ==
    /\ name \in DOMAIN commands
    /\ commands' = CommandRemove(commands, name)
    /\ done' = Text(done.content)
    /\ UNCHANGED cmdRest

\* execute(content, session) is called and returns
CmdExecute ==
    /\ done' = [kind |-> "exec", content |-> done.content, table |-> commands, res |-> CommandExecute(commands, done.content)]
    /\ UNCHANGED <<commands, cmdRest>>

NextCmd ==
    \/ \E def \in Defs, withAction \in BOOLEAN : CmdRegister(def, withAction)
    \/ \E name \in Words : CmdRemove(name)
    \/ CmdExecute

SpecCmd == InitCmd /\ [][NextCmd]_vars

----------------------------------------------------------------------------
(* Claims about command lookup (SpecCmd). *)

IsWord(piece) == piece # " "
\* the whitespace-separated tokens of a text
TokensOf(content) == SelectSeq(content, IsWord)

\* C14: execute looks the command up by the first whitespace-separated
\* token of the input and by nothing else.  When that token is a
\* registered name the result is matched = true and the action of that
\* command, if it has one, runs with the remaining tokens that are neither
\* options nor option values, in input order, as positional arguments:
\* "echo hi there" runs the action of "echo" with <<"hi", "there">>.  When
\* the first token is no registered name, and when the input has no
\* token, the result is matched = false and no action runs.
C14_FirstTokenLookup ==
    done.kind = "exec" =>
        LET tokens == TokensOf(done.content)
            res == done.res
        IN /\ tokens = <<>> => ~res.matched /\ ~res.ran
           /\ tokens # <<>> =>
                /\ res.matched <=> tokens[1] \in DOMAIN done.table
                /\ res.matched => res.name = tokens[1] /\ (res.ran <=> done.table[tokens[1]].act)
                /\ ~res.matched => ~res.ran
                /\ res.ran => IsSubseq(res.args, Tail(tokens))
                /\ (res.ran /\ \A i \in 2..Len(tokens) : ~StartsWithDash(tokens[i])) => res.args = Tail(tokens)
           /\ (done.content = <<"echo", " ", "hi", " ", "there">> /\ {"echo", "help"} \subseteq DOMAIN done.table /\ done.table["echo"].act)
                => res.matched /\ res.name = "echo" /\ res.ran /\ res.args = <<"hi", "there">>

\* "echo hi there" was executed with "echo <msg>", "help" and "hi"
\* registered, and the action of "echo" ran with <<"hi", "there">>
C14_Witness ==
    /\ done.kind = "exec"
    /\ done.content = <<"echo", " ", "hi", " ", "there">>
    /\ DOMAIN done.table = {"echo", "help", "hi"}
    /\ done.res.matched /\ done.res.ran /\ done.res.name = "echo" /\ done.res.args = <<"hi", "there">>

----------------------------------------------------------------------------
(* SpecCollide: the context tree with commands registered through the      *)
(* nodes, each with the action of the node that registered it, dispose,    *)
(* and execute of a text on the command table.                              *)

CollideContents == {<<"echo">>, <<"echo", " ", "hi">>, <<"help">>}

\* ctx.command(name, description).action(callback)
CollideCommand(n, name) ==
    /\ CanRegister(n)
    /\ LET w == CtxCommand(World, n, name)
       IN Apply([w EXCEPT !.cmds = CommandAction(@, name)])
    /\ lastCall' = [op |-> "command", node |-> n, name |-> name]
    /\ done' = NoDispatch

\* CommandManager.execute(content, session) on the table as it is, with
\* Command.execute: handler is the node whose action ran
CollideExecute(content) ==
    /\ LET res == CommandExecute(commands, content)
       IN done' = [kind |-> "exec", content |-> content, table |-> commands, res |-> res,
                   handler |-> IF res.ran THEN commands[res.name].by ELSE 0]
    /\ lastCall' = NoCall
    /\ UNCHANGED <<listeners, middlewares, commands, services, parent, children, lifecycle, regSeq, dispEmits, ranCount, stack, join, run, calls, tree>>

CollideExtend(p) == Extend(p) /\ done' = NoDispatch

CollidePlugin(p) == Plugin(p) /\ done' = NoDispatch

CollideDispose(n, ord) == Dispose(n, ord) /\ done' = NoDispatch

NextCollide ==
    \/ \E n \in Nodes, name \in CommandNames : CollideCommand(n, name)
    \/ \E p \in Nodes : CollideExtend(p)
    \/ \E p \in Nodes : CollidePlugin(p)
    \/ \E n \in Nodes, ord \in Orders : CollideDispose(n, ord)
    \/ \E content \in CollideContents : CollideExecute(content)

SpecCollide == InitCtx /\ [][NextCollide]_vars

\* the command names node n has registered: those it holds a disposer of
Registered(life, n) ==
    {life[n].disposables[i].name : i \in {j \in 1..Len(life[n].disposables) : life[n].disposables[j].kind = "cmd"}}

\* the nodes not disposed that have registered the name
LiveHolders(name) == {n \in Nodes : ~IsDisposed(n) /\ name \in Registered(lifecycle, n)}

----------------------------------------------------------------------------
(* SpecMsg: Context.handleMessage (core/context.ts) on the root of an App, *)
(* one stage step at a time, with stages added and commands registered and *)
(* removed between the steps.  The record run of the pipeline also holds    *)
(* the content of the session; its trace starts with the "message" event    *)
(* and holds what the final handler did each time it ran.                   *)

MsgNames == {"echo"}
\* a stage awaits next() once or returns without calling it
MsgBehaviours == {"next", "stop"}
MsgContents == {<<"echo", " ", "hi">>, <<" ", "bogus">>, <<"hi", " ", "echo">>, <<" ">>}

\* the final handler: command matching and, without a match, the event
\* "message/unhandled"
FinalHandlerUnconditional(r, C) ==
    LET res == CommandExecute(C, r.content)
    IN [r EXCEPT !.trace = Append(@, <<"unhandled", 0>>),
                 !.ran = IF res.ran THEN Append(@, res.name) ELSE @]

FinalHandler(r, C) ==
    LET res == CommandExecute(C, r.content)
    IN [r EXCEPT !.trace = Append(@, IF res.matched THEN <<"matched", 0>> ELSE <<"unhandled", 0>>),
                 !.ran = IF res.ran THEN Append(@, res.name) ELSE @]

\* the final handler runs where dispatch has called it
AfterDispatch(r, r1, C) ==
    IF Len(r1.trace) > Len(r.trace) /\ r1.trace[Len(r1.trace)] = <<"final", 0>>
    THEN FinalHandler(r1, C)
    ELSE r1

\* handleMessage(session), up to the first stage call: emit("message"),
\* then run(session, finalHandler)
HandleMessage(snapshot, beh, content, C) ==
    LET r == [kind |-> "run", snap |-> snapshot, beh |-> beh, frames |-> <<>>, trace |-> <<<<"message", 0>>>>,
              status |-> "running", content |-> content, ran |-> <<>>]
    IN Complete(AfterDispatch(r, RunEnter(r, 1), C))

InitMsg ==
    /\ listeners = EmptyMap
    /\ middlewares = <<>>
    /\ commands = CommandAction(CommandRegister(EmptyMap, "help", Root), "help")
    /\ services = EmptyMap
    /\ parent = <<0>>
    /\ children = <<<<>>>>
    /\ lifecycle = <<NewLifecycle>>
    /\ regSeq = 0
    /\ dispEmits = <<0>>
    /\ ranCount = <<0>>
    /\ lastCall = NoCall
    /\ stack = <<>>
    /\ join = NoDispatch
    /\ done = NoDispatch
    /\ run = NoDispatch
    /\ calls = <<>>
    /\ tree = NoDispatch

msgRest == <<listeners, services, parent, children, lifecycle, dispEmits, ranCount, lastCall, stack, join, done, calls, tree>>

MsgMiddleware(cb) ==
    /\ regSeq < MaxListeners
    /\ middlewares' = MiddlewareAdd(middlewares, Entry(Fn(cb, 0), 0, regSeq + 1, FALSE), FALSE)
    /\ regSeq' = regSeq + 1
    /\ UNCHANGED <<commands, run, msgRest>>

MsgCommand(name) ==
    /\ name \notin DOMAIN commands
    /\ commands' = CommandAction(CommandRegister(commands, name, Root), name)
    /\ UNCHANGED <<middlewares, regSeq, run, msgRest>>

MsgCommandRemove(name) ==
    /\ name \in DOMAIN commands
    /\ commands' = CommandRemove(commands, name)
    /\ UNCHANGED <<middlewares, regSeq, run, msgRest>>

MsgBegin(content, beh) ==
    /\ ~Running
    /\ run' = HandleMessage(middlewares, beh, content, commands)
    /\ UNCHANGED <<middlewares, commands, regSeq, msgRest>>

MsgStep ==
    /\ Running
    /\ run' = AfterDispatch(run, StageStep(run), commands)
    /\ UNCHANGED <<middlewares, commands, regSeq, msgRest>>

NextMsg ==
    \/ \E cb \in StageFns : MsgMiddleware(cb)
    \/ \E name \in MsgNames : MsgCommand(name)
    \/ \E name \in MsgNames : MsgCommandRemove(name)
    \/ \E content \in MsgContents, beh \in [1..Len(middlewares) -> MsgBehaviours] : MsgBegin(content, beh)
    \/ MsgStep

SpecMsg == InitMsg /\ [][NextMsg]_vars

----------------------------------------------------------------------------
(* Claims about handleMessage (SpecMsg). *)

\* what a step adds to the trace of handleMessage: all of it when the step
\* is the call, else what comes after the trace so far
Added ==
    IF run'.kind # "run" \/ run' = run THEN <<>>
    ELSE IF Running THEN SubSeq(run'.trace, Len(run.trace) + 1, Len(run'.trace))
    ELSE run'.trace

Holds(t, e) == \E i \in 1..Len(t) : t[i] = e

\* C13: handleMessage emits "message" once, first; commands are matched
\* only where the chain reaches the final handler; each time the final
\* handler runs it emits "message/unhandled" if and only if the first
\* token of the content is no name of the command table as it is then;
\* when a stage does not call next (and those before it call next once)
\* no command runs and "message/unhandled" is not emitted.
C13_MessageThenChainThenCommand ==
    [][(run'.kind = "run") =>
        LET t == run'.trace
            tokens == TokensOf(run'.content)
            known == tokens # <<>> /\ tokens[1] \in DOMAIN commands
        IN /\ t[1] = <<"message", 0>> /\ \A i \in 2..Len(t) : t[i] # <<"message", 0>>
           /\ \A i \in 1..Len(t) : t[i] \in {<<"matched", 0>>, <<"unhandled", 0>>} <=> (i > 1 /\ t[i - 1] = <<"final", 0>>)
           /\ Len(run'.ran) <= Cardinality({i \in 1..Len(t) : t[i] = <<"matched", 0>>})
           /\ Holds(Added, <<"final", 0>>) =>
                 /\ Holds(Added, <<"unhandled", 0>>) <=> ~known
                 /\ Holds(Added, <<"matched", 0>>) <=> known
           /\ \A k \in 1..Len(run'.snap) :
                 (run'.beh[k] = "stop" /\ \A j \in 1..(k - 1) : run'.beh[j] = "next") =>
                     /\ run'.ran = <<>>
                     /\ \A i \in 1..Len(t) : t[i] \notin {<<"final", 0>>, <<"matched", 0>>, <<"unhandled", 0>>}
      ]_vars

\* a handleMessage is complete whose two stages called next and whose
\* final handler emitted "message/unhandled", the content starting with
\* whitespace and a word that is no command while later words are
C13_Witness ==
    /\ run.kind = "run" /\ run.status = "done"
    /\ Len(run.snap) = 2 /\ \A j \in 1..2 : run.beh[j] = "next"
    /\ run.content = <<"hi", " ", "echo">> /\ "echo" \in DOMAIN commands
    /\ run.trace = <<<<"message", 0>>, <<"enter", 1>>, <<"enter", 2>>, <<"final", 0>>, <<"unhandled", 0>>, <<"exit", 2>>, <<"exit", 1>>>>

----------------------------------------------------------------------------
(* SpecRuns: handleMessage calls on a context tree whose nodes add stages   *)
(* and are disposed while the runs are suspended.  stack holds the runs     *)
(* called so far, in call order; any run in progress may take the next      *)
(* step.                                                                    *)

\* the stages dispatch(index) reads: the copy run() made, not the list M of
\* the pipeline
RunStagesLive(r, M) == M

RunStages(r, M) == r.snap

\* every stage awaits next() once, but stage k, which returns without it
StopsOnlyAt(k) == [j \in 1..MaxSize |-> IF j = k THEN "stop" ELSE "next"]

runsRest == <<listeners, middlewares, commands, services, parent, children, lifecycle, regSeq, dispEmits, ranCount, join, done, run, calls, tree>>

\* the size of a scenario: the nodes, the root included, the stages added
\* and the runs called
RunsCanGrow == Len(parent) + regSeq + Len(stack) < MaxSize

RunsMiddleware(n, cb, prepend) ==
    /\ RunsCanGrow
    /\ Middleware(n, cb, prepend)

RunsPlugin(p) ==
    /\ RunsCanGrow
    /\ Plugin(p)

RunsBegin(k) ==
    /\ RunsCanGrow
    /\ Len(stack) < MaxDepth
    /\ stack' = Append(stack, HandleMessage(middlewares, StopsOnlyAt(k), <<"help">>, commands))
    /\ lastCall' = [op |-> "handleMessage", run |-> Len(stack) + 1]
    /\ UNCHANGED runsRest

RunsStep(a) ==
    /\ stack[a].status = "running"
    /\ LET r == [stack[a] EXCEPT !.snap = RunStages(stack[a], middlewares)]
       IN stack' = [stack EXCEPT ![a] = AfterDispatch(r, StageStep(r), commands)]
    /\ lastCall' = NoCall
    /\ UNCHANGED runsRest

NextRuns ==
    \/ \E n \in Nodes, cb \in StageFns, prepend \in BOOLEAN : RunsMiddleware(n, cb, prepend)
    \/ \E p \in Nodes : RunsPlugin(p)
    \/ \E n \in Nodes, ord \in Orders : Dispose(n, ord)
    \/ \E k \in 0..Len(middlewares) : RunsBegin(k)
    \/ \E a \in 1..Len(stack) : RunsStep(a)

SpecRuns == InitCtx /\ [][NextRuns]_vars

\* what a run over n stages does when stage k is the first that does not
\* call next (none when k is 0), up to what the final handler finds
OnionOf(n, k, found) ==
    IF k \in 1..n
    THEN <<<<"message", 0>>>> \o Enters(k) \o Exits(k)
    ELSE <<<<"message", 0>>>> \o Enters(n) \o <<<<"final", 0>>, <<found, 0>>>> \o Exits(n)

FirstStop(r) ==
    IF \E j \in 1..Len(r.snap) : r.beh[j] = "stop"
    THEN CHOOSE j \in 1..Len(r.snap) : r.beh[j] = "stop" /\ \A i \in 1..(j - 1) : r.beh[i] # "stop"
    ELSE 0

\* C25: a run works on the stage list as it was when run() was called.
\* The stages of a run are those of the pipeline at the call and stay
\* the same whatever is added to or removed from the pipeline while the
\* run is suspended, the stages of disposed nodes included; every step of
\* a run goes on from its own trace, along its own stages in their order,
\* and leaves the other runs as they are.
C25_RunOnSnapshot ==
    [][/\ lastCall'.op = "handleMessage" =>
            /\ stack'[lastCall'.run].snap = middlewares
            /\ \A a \in 1..Len(stack) : stack'[a] = stack[a]
       /\ \A a \in 1..Len(stack) :
            /\ stack'[a].snap = stack[a].snap
            /\ IsPrefix(stack[a].trace, stack'[a].trace)
            /\ stack'[a] # stack[a] => \A b \in 1..Len(stack) : b # a => stack'[b] = stack[b]
       /\ \A a \in 1..Len(stack') :
            LET r == stack'[a]
            IN /\ \E found \in {"matched", "unhandled"} : IsPrefix(r.trace, OnionOf(Len(r.snap), FirstStop(r), found))
               /\ r.status = "done" => \E found \in {"matched", "unhandled"} : r.trace = OnionOf(Len(r.snap), FirstStop(r), found)
      ]_vars

\* the first run is suspended inside its stage, whose node has been
\* disposed since the run was called, so that the stage is in the pipeline
\* no more; the second run, called after that, has found no stage and is
\* complete
C25_Witness ==
    /\ Len(stack) = 2
    /\ stack[1].status = "running"
    /\ Len(stack[1].snap) = 1 /\ Len(stack[1].frames) = 1
    /\ IsDisposed(stack[1].snap[1].by)
    /\ middlewares = <<>>
    /\ stack[2].snap = <<>> /\ stack[2].status = "done"
    /\ stack[2].trace = <<<<"message", 0>>, <<"final", 0>>, <<"matched", 0>>>>

----------------------------------------------------------------------------
(* SpecLate: a context tree whose nodes register listeners of one event and *)
(* stages and are disposed, while an emit of the event (in stack) and a    *)
(* pipeline run (in run) go on one listener call and one stage step at a    *)
(* time.  A dispose() can fall between the call of emit or run, which takes *)
(* the copy of the list, and the calls of the listeners and stages.         *)

LateEvent == "e"
LateCallback == "f"
LateStage == "A"

LateOn(n) == On(n, LateEvent, LateCallback, FALSE)

LateMiddleware(n) == Middleware(n, LateStage, FALSE)

LateEmit == Begin("emit", LateEvent)

LateCall == Call(Undefined)

\* every stage awaits next() once
LateRun == RunBegin([j \in 1..Len(middlewares) |-> "next"])

NextLate ==
    \/ \E n \in Nodes : LateOn(n)
    \/ \E n \in Nodes : LateMiddleware(n)
    \/ \E p \in Nodes : Plugin(p)
    \/ \E n \in Nodes, ord \in Orders : Dispose(n, ord)
    \/ LateEmit
    \/ LateCall
    \/ LateRun
    \/ RunStep

SpecLate == InitCtx /\ [][NextLate]_vars

\* the listener that the step calls, if it is a step of the emit
ListenerCalled == IF stack # <<>> /\ stack' # stack THEN {Head(stack).snap[Head(stack).i]} ELSE {}

\* the stages that the step calls, if it is a step of a run or its call
StagesEntered ==
    IF run' = run \/ run'.kind # "run" THEN {}
    ELSE LET from == IF Running THEN Len(run.trace) ELSE 0
         IN {run'.snap[run'.trace[k][2]] : k \in {t \in (from + 1)..Len(run'.trace) : run'.trace[t][1] = "enter"}}

\* C31 as stated: once dispose() of a node has returned, no listener and no
\* stage registered through the node is called any more, also not by an
\* emit or a run that was called before the dispose().
C31_NoCallAfterDispose ==
    [][\A entry \in ListenerCalled \cup StagesEntered : ~IsDisposed(entry.by)]_vars

\* the emit or the run that the step starts, with the copy it takes
EmitStarted == stack = <<>> /\ stack' # <<>>
RunStarted == run' # run /\ ~Running /\ run'.kind = "run"

\* C31, amended: an emit or a run that is called after dispose() of a node
\* has returned calls a function at most as often as the nodes that are
\* not disposed have registered it, and so not at all when only disposed
\* nodes have; an emit or a run called before goes on to call the
\* listeners and stages of its copy, in their order, whoever registered
\* them.
C31_NoCallByLaterDispatch ==
    [][/\ EmitStarted =>
            Count(Head(stack').snap, Fn(LateCallback, 0)) <= LiveRegs(lifecycle, "off", LateEvent, Fn(LateCallback, 0))
       /\ RunStarted =>
            Count(run'.snap, Fn(LateStage, 0)) <= LiveRegs(lifecycle, "remove", "", Fn(LateStage, 0))
       /\ (stack # <<>> /\ stack' # <<>>) => Head(stack').snap = Head(stack).snap
       /\ (stack # <<>> /\ stack' # stack) =>
            LET rec == IF stack' = <<>> THEN done' ELSE Head(stack')
            IN rec.log = Append(Head(stack).log, Head(stack).snap[Len(Head(stack).log) + 1].reg)
       /\ (Running /\ run' # run) =>
            /\ run'.snap = run.snap
            /\ \A entry \in StagesEntered : \E j \in 1..Len(run.snap) :
                  /\ entry = run.snap[j]
                  /\ run'.trace[Len(run.trace) + 1] = <<"enter", j>>
                  /\ Head(run.frames).idx = j - 1
      ]_vars

\* one node is disposed, its Lifecycle has run two disposers; the run
\* called before is inside the stage of that node; the emit called after
\* has just taken its copy, which holds no listener of that node
C31_Witness ==
    /\ lastCall.op = "dispose" /\ lastCall.newly = 1
    /\ Cardinality(DisposedNodes(lifecycle)) = 1
    /\ \E c \in DisposedNodes(lifecycle) :
          /\ ranCount[c] = 2
          /\ Running /\ run.frames # <<>> /\ run.snap[Head(run.frames).idx].by = c
    /\ stack # <<>> /\ Head(stack).log = <<>>
    /\ Head(stack).snap = ListenersOf(listeners, LateEvent)
    /\ \A k \in 1..Len(Head(stack).snap) : ~IsDisposed(Head(stack).snap[k].by)

----------------------------------------------------------------------------
(* SpecKids: the child lists of a context tree under extend, plugin and    *)
(* dispose, with "dispose" listeners that throw, so that the dispose()     *)
(* calls made while one is registered end before the teardown.              *)

NextKids ==
    \/ \E n \in Nodes : On(n, "dispose", "boom", FALSE)
    \/ \E p \in Nodes : Extend(p)
    \/ \E p \in Nodes : Plugin(p)
    \/ \E n \in Nodes, ord \in Orders : Dispose(n, ord)

SpecKids == InitCtx /\ [][NextKids]_vars

\* this.root of a node, as the constructor sets it: the parent's root, the
\* node itself without a parent
RECURSIVE RootOf(_)
RootOf(n) == IF parent[n] = Null THEN n ELSE RootOf(parent[n])

\* C32: between the calls of extend, plugin and dispose, the child list of
\* every node holds the nodes created from it that are not disposed, each
\* once, and each has the node as its parent; no disposed node is in a
\* child list; the root has no parent and is its own root, and the root of
\* every node.
C32_ChildLists ==
    /\ \A n \in Nodes :
          /\ {children[n][i] : i \in 1..Len(children[n])} = {c \in Nodes : parent[c] = n /\ ~IsDisposed(c)}
          /\ \A i, j \in 1..Len(children[n]) : children[n][i] = children[n][j] => i = j
    /\ parent[Root] = Null /\ RootOf(Root) = Root
    /\ \A n \in Nodes : n # Root => (parent[n] \in Nodes /\ RootOf(n) = Root)

\* a node was disposed and has left the child list of its parent, where a
\* sibling stays; the last dispose() call threw at its "dispose" event and
\* has left its node in the tree
C32_Witness ==
    /\ lastCall.op = "dispose" /\ lastCall.threw /\ lastCall.newly = 0
    /\ \E d \in Nodes : \E c \in Nodes :
          /\ d # c /\ parent[d] = parent[c] /\ parent[d] # Null
          /\ IsDisposed(d) /\ ~IsDisposed(c)
          /\ children[parent[d]] = <<c>>

----------------------------------------------------------------------------
(* SpecTree: contexts as objects.  tree.objs is the heap of the shared      *)
(* structures (event buses, service registries, command tables, pipelines), *)
(* each with what has been registered in it; tree.nodes are the contexts,   *)
(* each with its references: its parent, its root and the four structures   *)
(* it uses.  An App is a root; there may be several.                        *)

Kinds == {"events", "services", "commands", "middlewares"}
Items == {"x"}

\* new Context(parent): a child takes the root of its parent and the
\* structures of that root, a root makes its own
NewContextOwnBus(t, p) ==
    LET k == Len(t.objs)
        self == Len(t.nodes) + 1
    IN IF p # 0
       THEN LET r == t.nodes[p].root
            IN [nodes |-> Append(t.nodes, [parent |-> p, root |-> r, events |-> k + 1,
                                           services |-> t.nodes[r].services, commands |-> t.nodes[r].commands,
                                           middlewares |-> t.nodes[r].middlewares]),
                objs |-> t.objs \o <<{}>>]
       ELSE [nodes |-> Append(t.nodes, [parent |-> 0, root |-> self, events |-> k + 1, services |-> k + 2,
                                        commands |-> k + 3, middlewares |-> k + 4]),
             objs |-> t.objs \o <<{}, {}, {}, {}>>]

NewContext(t, p) ==
    LET k == Len(t.objs)
        self == Len(t.nodes) + 1
    IN IF p # 0
       THEN LET r == t.nodes[p].root
            IN [nodes |-> Append(t.nodes, [parent |-> p, root |-> r, events |-> t.nodes[r].events,
                                           services |-> t.nodes[r].services, commands |-> t.nodes[r].commands,
                                           middlewares |-> t.nodes[r].middlewares]),
                objs |-> t.objs]
       ELSE [nodes |-> Append(t.nodes, [parent |-> 0, root |-> self, events |-> k + 1, services |-> k + 2,
                                        commands |-> k + 3, middlewares |-> k + 4]),
             objs |-> t.objs \o <<{}, {}, {}, {}>>]

\* on/once, provide, command, middleware through node n: the registration
\* goes to the structure the node refers to
RegisterThrough(t, n, kind, item) == [t EXCEPT !.objs[t.nodes[n][kind]] = @ \cup {item}]

\* what emit/bail/parallel, getService and handleMessage on node m find:
\* the content of the structure the node refers to
SeenFrom(t, m, kind) == t.objs[t.nodes[m][kind]]

InitTree ==
    /\ listeners = EmptyMap
    /\ middlewares = <<>>
    /\ commands = EmptyMap
    /\ services = EmptyMap
    /\ parent = <<0>>
    /\ children = <<<<>>>>
    /\ lifecycle = <<NewLifecycle>>
    /\ regSeq = 0
    /\ dispEmits = <<0>>
    /\ ranCount = <<0>>
    /\ lastCall = NoCall
    /\ stack = <<>>
    /\ join = NoDispatch
    /\ done = NoDispatch
    /\ run = NoDispatch
    /\ calls = <<>>
    /\ tree = NewContext([nodes |-> <<>>, objs |-> <<>>], 0)

treeRest == <<listeners, middlewares, commands, services, parent, children, lifecycle, regSeq, dispEmits, ranCount, stack, join, done, run, calls>>

\* new App()
TreeApp ==
    /\ Len(tree.nodes) < MaxNodes
    /\ tree' = NewContext(tree, 0)
    /\ lastCall' = NoCall
    /\ UNCHANGED treeRest

\* extend() on node p, also as the first step of plugin()
TreeExtend(p) ==
    /\ Len(tree.nodes) < MaxNodes
    /\ tree' = NewContext(tree, p)
    /\ lastCall' = NoCall
    /\ UNCHANGED treeRest

TreeRegister(n, kind, item) ==
    /\ tree' = RegisterThrough(tree, n, kind, item)
    /\ lastCall' = [op |-> "register", node |-> n, kind |-> kind, item |-> item]
    /\ UNCHANGED treeRest

NextTree ==
    \/ TreeApp
    \/ \E p \in 1..Len(tree.nodes) : TreeExtend(p)
    \/ \E n \in 1..Len(tree.nodes), kind \in Kinds, item \in Items : TreeRegister(n, kind, item)

SpecTree == InitTree /\ [][NextTree]_vars

\* C19: every node made by extend() or plugin() has the root of its
\* parent, and its bus, service registry, command table and pipeline are
\* the objects of that root; so what was registered through a node is
\* found from every node of the same tree.
C19_SharedStructures ==
    /\ \A n \in 1..Len(tree.nodes) :
          LET node == tree.nodes[n]
          IN /\ node.parent # 0 => node.root = tree.nodes[node.parent].root
             /\ tree.nodes[node.root].parent = 0
             /\ \A kind \in Kinds : node[kind] = tree.nodes[node.root][kind]
    /\ lastCall.op = "register" =>
          \A m \in 1..Len(tree.nodes) :
              tree.nodes[m].root = tree.nodes[lastCall.node].root => lastCall.item \in SeenFrom(tree, m, lastCall.kind)

\* a listener was registered through a node two levels below the root,
\* in a tree of three nodes
C19_Witness ==
    /\ lastCall.op = "register" /\ lastCall.kind = "events"
    /\ Len(tree.nodes) = 3
    /\ tree.nodes[lastCall.node].parent # 0
    /\ tree.nodes[tree.nodes[lastCall.node].parent].parent # 0
    /\ lastCall.item \in SeenFrom(tree, tree.nodes[lastCall.node].root, "events")

====
